---- MODULE Spec2Model ----
(***************************************************************************)
(* Model of the CFE electricity assistant: compute_cost_mxn,               *)
(* compute_co2e_kg and compute_breakdown_and_recs of                       *)
(* energy/services/calculations.py, get_recommendations of                 *)
(* energy/services/recommendations.py, the results view (one request at a *)
(* time and concurrent requests) and the create_bill view of               *)
(* energy/views.py and the field mapping of energy/services/ocr.py.        *)
(*                                                                         *)
(* Units.  Money is held in centavos (1/100 MXN) and CO2e in hundredths of *)
(* a kg, so a Decimal quantized to 0.01 is an integer here.  Per-kWh rates *)
(* are in centavos per kWh, the IVA multiplier 1.16 is 116 hundredths and  *)
(* the emission factor 0.444 is 444 thousandths.                           *)
(***************************************************************************)
EXTENDS Integers, Sequences, FiniteSets, TLC

VARIABLES pc, op, bill, survey, ret, analysis, api, llamadas, bills, session

vars == <<pc, op, bill, survey, ret, analysis, api, llamadas, bills, session>>

(***************************************************************************)
(* Bounds of the model.                                                    *)
(***************************************************************************)
MaxNegativo == 2          \* the cost functions are tried from -MaxNegativo kWh
MaxConsumo == 1000        \* highest consumption handed to the cost functions
MaxTotal == 440           \* highest total consumption handed to the breakdown
HorasAjuste == 2          \* daily hours of A/C of the households tried on every total

(***************************************************************************)
(* Values shared by the operations.                                        *)
(***************************************************************************)
NONE == -1                \* Python None in a nullable numeric field

NoSurvey == [refrigeradores |-> 1, ref_antiguedad |-> "mid", ac_count |-> 0,
             ac_horas_dia |-> 0, agua_caliente |-> "gas", personas_en_casa |-> 1,
             lavadora |-> TRUE, secadora |-> FALSE, home_office |-> FALSE,
             bombeo_agua |-> FALSE]

\* Bill.TARIFA_CHOICES: the codes a bill may declare.
TARIFA_CHOICES == {"1", "1A", "1B", "1C", "1D", "1E", "1F", "DAC", "DESCONOZCO"}

\* A code outside TARIFA_CHOICES: the functions take any string.
TarifaNoReconocida == "PDBT"

Tarifas == TARIFA_CHOICES \cup {TarifaNoReconocida}

Max(a, b) == IF a >= b THEN a ELSE b

Min(a, b) == IF a <= b THEN a ELSE b

\* Decimal.quantize(..., rounding=ROUND_HALF_UP) of x/unit: nearest integer,
\* ties away from zero.
RoundHalfUp(x, unit) ==
    IF x >= 0 THEN (2 * x + unit) \div (2 * unit)
    ELSE -((2 * (-x) + unit) \div (2 * unit))

Value(v) == [kind |-> "value", value |-> v]

Raised(e) == [kind |-> "error", error |-> e]

NoRet == [kind |-> "none"]

\* Bill.analysis / Bill.survey of a bill that has no such row.
DoesNotExist == [kind |-> "DoesNotExist"]

\* No reply of the OpenAI API: the operation does not call it.
NoApi == [kind |-> "none"]

(***************************************************************************)
(* compute_cost_mxn                                                        *)
(***************************************************************************)
CO2E_FACTOR == 444        \* thousandths of kgCO2e per kWh

\* Mutant: the high rate bills only the kWh above the 500 kWh threshold.
CostoBaseAlto_SoloExcedente(consumo_kwh) == (consumo_kwh - 500) * 638

\* Pre-tax cost in centavos when the whole consumption takes the DAC rate.
CostoBaseAlto(consumo_kwh) == consumo_kwh * 638

\* Mutant: the intermediate step starts at its width, 130, not at 150.
CostoBaseEscalonado_Desde130(consumo_kwh) ==
    LET basico     == Min(consumo_kwh, 150) * 98
        intermedio == Min(Max(consumo_kwh - 130, 0), 130) * 119
        excedente  == Max(consumo_kwh - 280, 0) * 352
    IN  basico + intermedio + excedente

\* Pre-tax cost in centavos of the stepped schedule.
CostoBaseEscalonado(consumo_kwh) ==
    LET basico     == Min(consumo_kwh, 150) * 98
        intermedio == Min(Max(consumo_kwh - 150, 0), 130) * 119
        excedente  == Max(consumo_kwh - 280, 0) * 352
    IN  basico + intermedio + excedente

\* Mutant: only the DAC code takes the high rate, not a consumption over 500.
CostoBase_SoloDAC(consumo_kwh, tarifa) ==
    IF tarifa = "DAC"
    THEN consumo_kwh * 638
    ELSE Min(consumo_kwh, 150) * 98
             + Min(Max(consumo_kwh - 150, 0), 130) * 119
             + Max(consumo_kwh - 280, 0) * 352

\* Mutant: the unknown-tariff sentinel is billed as DAC.
CostoBase_DesconocidaAlta(consumo_kwh, tarifa) ==
    IF tarifa \in {"DAC", "DESCONOZCO"} \/ consumo_kwh > 500
    THEN consumo_kwh * 638
    ELSE Min(consumo_kwh, 150) * 98
             + Min(Max(consumo_kwh - 150, 0), 130) * 119
             + Max(consumo_kwh - 280, 0) * 352

\* costo_base of compute_cost_mxn, in centavos.
CostoBase(consumo_kwh, tarifa) ==
    IF tarifa = "DAC" \/ consumo_kwh > 500
    THEN CostoBaseAlto(consumo_kwh)
    ELSE CostoBaseEscalonado(consumo_kwh)

\* The returned Decimal, in centavos: costo_base * 1.16 is in 1/10000 MXN.
compute_cost_mxn(consumo_kwh, tarifa) ==
    RoundHalfUp(CostoBase(consumo_kwh, tarifa) * 116, 100)

(***************************************************************************)
(* compute_co2e_kg                                                         *)
(***************************************************************************)
\* Mutant: the product is cut to 2 decimals instead of rounded half-up.
compute_co2e_kg_Truncado(consumo_kwh) == (consumo_kwh * CO2E_FACTOR) \div 10

\* The returned Decimal in hundredths of a kg: consumo * 0.444 is in 1/1000.
compute_co2e_kg(consumo_kwh) == RoundHalfUp(consumo_kwh * CO2E_FACTOR, 10)

(***************************************************************************)
(* Calls of the two estimators.  Init draws the arguments, the action      *)
(* applies the function and records what it returned.                      *)
(***************************************************************************)
BillOf(consumo, tarifa) ==
    [consumo_kwh |-> consumo, tarifa |-> tarifa, total_recibo_mxn |-> NONE,
     lectura_anterior |-> NONE, lectura_actual |-> NONE]

InitCost ==
    /\ pc = "call"
    /\ op \in {"compute_cost_mxn", "compute_co2e_kg"}
    /\ \E c \in (-MaxNegativo)..MaxConsumo, t \in Tarifas : bill = BillOf(c, t)
    /\ survey = NoSurvey
    /\ ret = NoRet
    /\ analysis = DoesNotExist
    /\ api = NoApi
    /\ llamadas = 0
    /\ bills = <<>>
    /\ session = <<>>

CallCost ==
    /\ pc = "call"
    /\ op = "compute_cost_mxn"
    /\ ret' = Value(compute_cost_mxn(bill.consumo_kwh, bill.tarifa))
    /\ pc' = "done"
    /\ UNCHANGED <<op, bill, survey, analysis, api, llamadas, bills, session>>

CallCo2e ==
    /\ pc = "call"
    /\ op = "compute_co2e_kg"
    /\ ret' = Value(compute_co2e_kg(bill.consumo_kwh))
    /\ pc' = "done"
    /\ UNCHANGED <<op, bill, survey, analysis, api, llamadas, bills, session>>

NextCost == CallCost \/ CallCo2e

SpecCost == InitCost /\ [][NextCost]_vars

(***************************************************************************)
(* Binary floating point.  compute_breakdown_and_recs mixes int and float: *)
(* the products and differences it truncates with int() are IEEE-754       *)
(* doubles, and where a sum of tenths should be a whole number the double  *)
(* may fall just below or just above it.  A double x that approximates a   *)
(* number of tenths is held exactly as the pair <<t, d>> with              *)
(*        x = (t * F64Q + d) * 2^-54,   F64Q = (2^53 - 2) / 5,             *)
(* so t is x in tenths (2^54 / 10 = F64Q + 2/5) and d is a small offset.   *)
(* Every double in [0, 8192) that the function forms is such a pair.       *)
(* Only F64Q modulo a power of two is needed to round.                     *)
(***************************************************************************)
F64QMod == 26214          \* F64Q % 2^15

\* float(n) of an int n: n = n * 2^54 * 2^-54 and 2^54 = 10 * F64Q + 4.
F64FromInt(n) == <<10 * n, 4 * n>>

F64Zero == <<0, 0>>

F64Lt(a, b) == a[1] < b[1] \/ (a[1] = b[1] /\ a[2] < b[2])

F64Le(a, b) == ~F64Lt(b, a)

\* x < n for a double x and an int n.
F64Below(x, n) == x[1] < 10 * n \/ (x[1] = 10 * n /\ x[2] < 4 * n)

\* Spacing of the doubles around p, in units of 2^-54: 1 below 0.5 and
\* 2^(e+2) in [2^e, 2^(e+1)), for p < 8192.
F64Ulp(p) ==
    IF F64Below(p, 64)
    THEN IF F64Below(p, 8)
         THEN IF F64Below(p, 1) THEN (IF F64Lt(p, <<5, 2>>) THEN 1 ELSE 2)
              ELSE IF F64Below(p, 2) THEN 4
              ELSE IF F64Below(p, 4) THEN 8 ELSE 16
         ELSE IF F64Below(p, 16) THEN 32
              ELSE IF F64Below(p, 32) THEN 64 ELSE 128
    ELSE IF F64Below(p, 512)
         THEN IF F64Below(p, 128) THEN 256
              ELSE IF F64Below(p, 256) THEN 512 ELSE 1024
         ELSE IF F64Below(p, 1024) THEN 2048
              ELSE IF F64Below(p, 2048) THEN 4096
              ELSE IF F64Below(p, 4096) THEN 8192 ELSE 16384

\* p moved to a multiple of the spacing g: r is p modulo g, and lowerEven
\* says that the multiple below p is an even one.  Ties go to even.
F64Nearest(p, g, r, lowerEven) ==
    IF 2 * r < g \/ (2 * r = g /\ lowerEven)
    THEN <<p[1], p[2] - r>>
    ELSE <<p[1], p[2] + g - r>>

\* p modulo m, in units of 2^-54.
F64Mod(p, m) == ((p[1] % m) * (F64QMod % m) + p[2]) % m

F64RoundTo(p, g) ==
    F64Nearest(p, g, F64Mod(p, g), F64Mod(p, 2 * g) < g)

\* The exact value p rounded to the nearest double, ties to even.
F64Round(p) == F64RoundTo(p, F64Ulp(p))

\* k * 0.3 for an int k: the double 0.3 is <<3, 1>>.
F64Times03(k) == F64Round(<<3 * k, k>>)

\* k * 1.2 for an int k: the double 1.2 is <<12, 4>>.
F64Times12(k) == F64Round(<<12 * k, 4 * k>>)

\* x * 60 for a double x.
F64Times60(x) == F64Round(<<60 * x[1], 60 * x[2]>>)

\* a - b for doubles a >= b.
F64Sub(a, b) == F64Round(<<a[1] - b[1], a[2] - b[2]>>)

\* Python min(a, b): b when b < a, else a.
F64Min(a, b) == IF F64Lt(b, a) THEN b ELSE a

\* int(x) for a double x >= 0.
F64Int(x) ==
    LET n == x[1] \div 10
    IN  IF x[1] % 10 # 0 \/ x[2] >= 4 * n THEN n ELSE n - 1

(***************************************************************************)
(* compute_breakdown_and_recs: category names                              *)
(***************************************************************************)
REFRIGERACION == "Refrigeracion"

STANDBY == "Standby / Miscelaneos"

CLIMATIZACION == "Climatizacion (A/C)"

AGUA_CALIENTE == "Agua caliente"

LAVADO == "Lavado"

ELECTRONICOS == "Electronicos / Home Office"

BOMBEO == "Bombeo de agua"

OTROS == "Otros"

flexible_cats == <<CLIMATIZACION, ELECTRONICOS, STANDBY, BOMBEO>>

Categoria(kwh, confianza) == [kwh |-> kwh, confianza |-> confianza]

\* An assumption note: the text and the numbers the f-string puts in it.
Nota(texto, a, b) == <<texto, a, b>>

(***************************************************************************)
(* Steps 1-7: the estimate of each category                                *)
(***************************************************************************)
\* int(x * num / 100) for an int x >= 0 and a two-decimal factor: the double
\* product is a whole number whenever the exact product is one.
IntVeces(x, num) == (x * num) \div 100

RefKwh(s) ==
    LET ref_base == IF s.refrigeradores = 1 THEN 100 ELSE 160
    IN  IF s.ref_antiguedad = "old" THEN IntVeces(ref_base, 120)
        ELSE IF s.ref_antiguedad = "new" THEN IntVeces(ref_base, 85)
        ELSE ref_base

StandbyKwh(consumo_total) == Max(30, IntVeces(consumo_total, 10))

AcPresente(s) == s.ac_count > 0 /\ s.ac_horas_dia > 0

\* int(ac_count * ac_horas_dia * 1.2 * 60), evaluated left to right.
AcEstimado(s) == F64Int(F64Times60(F64Times12(s.ac_count * s.ac_horas_dia)))

AcKwh(consumo_total, s) == Min(AcEstimado(s), IntVeces(consumo_total, 60))

AguaKwh(s) == Min(120, 40 + s.personas_en_casa * 15)

LavadoKwh(s) ==
    (IF s.lavadora THEN 20 ELSE 0) + (IF s.secadora THEN 120 ELSE 0)

\* breakdown[cat] = valor on a dict.
Poner(breakdown, cat, valor) == (cat :> valor) @@ breakdown

\* The breakdown dict before the adjustment to the total (lines 83-171).
BreakdownInicial(consumo_total, s) ==
    LET b1 == Poner(<<>>, REFRIGERACION, Categoria(RefKwh(s), "high"))
        b2 == Poner(b1, STANDBY, Categoria(StandbyKwh(consumo_total), "low"))
        b3 == IF AcPresente(s)
              THEN Poner(b2, CLIMATIZACION, Categoria(AcKwh(consumo_total, s), "medium"))
              ELSE b2
        b4 == IF s.agua_caliente = "elec"
              THEN Poner(b3, AGUA_CALIENTE, Categoria(AguaKwh(s), "medium"))
              ELSE b3
        b5 == IF LavadoKwh(s) > 0
              THEN Poner(b4, LAVADO, Categoria(LavadoKwh(s),
                                         IF s.secadora THEN "medium" ELSE "high"))
              ELSE b4
        b6 == IF s.home_office
              THEN Poner(b5, ELECTRONICOS, Categoria(80, "low"))
              ELSE b5
    IN  IF s.bombeo_agua THEN Poner(b6, BOMBEO, Categoria(50, "low")) ELSE b6

\* The notes appended by steps 1-7, in order.
SupuestosIniciales(s) ==
    (IF s.ref_antiguedad = "old"
        THEN <<Nota("Refrigerador antiguo: +20% consumo estimado", 0, 0)>>
     ELSE IF s.ref_antiguedad = "new"
        THEN <<Nota("Refrigerador nuevo: -15% consumo estimado", 0, 0)>>
     ELSE <<>>)
    \o <<Nota("Standby estimado como 10% del consumo total (min. 30 kWh)", 0, 0)>>
    \o (IF AcPresente(s)
        THEN <<Nota("A/C: {} unidad(es) x {}h/dia x 1.2kW x 60 dias",
                    s.ac_count, s.ac_horas_dia)>>
        ELSE <<>>)
    \o (IF s.agua_caliente = "elec"
        THEN <<Nota("Calentador electrico para {} personas", s.personas_en_casa, 0)>>
        ELSE <<>>)
    \o (IF s.lavadora
        THEN <<Nota("Lavadora: ~20 kWh/bimestre estimado", 0, 0)>> ELSE <<>>)
    \o (IF s.secadora
        THEN <<Nota("Secadora electrica: ~120 kWh/bimestre estimado", 0, 0)>>
        ELSE <<>>)
    \o (IF s.home_office
        THEN <<Nota("Home office: ~80 kWh/bimestre (PC + perifericos)", 0, 0)>>
        ELSE <<>>)
    \o (IF s.bombeo_agua
        THEN <<Nota("Bomba de agua: ~50 kWh/bimestre estimado", 0, 0)>>
        ELSE <<>>)

(***************************************************************************)
(* The adjustment to the total                                             *)
(***************************************************************************)
KwhDe(breakdown, cat) ==
    IF cat \in DOMAIN breakdown THEN breakdown[cat].kwh ELSE 0

\* sum(cat['kwh'] for cat in breakdown.values())
SumaKwh(breakdown) ==
    KwhDe(breakdown, REFRIGERACION) + KwhDe(breakdown, STANDBY)
        + KwhDe(breakdown, CLIMATIZACION) + KwhDe(breakdown, AGUA_CALIENTE)
        + KwhDe(breakdown, LAVADO) + KwhDe(breakdown, ELECTRONICOS)
        + KwhDe(breakdown, BOMBEO) + KwhDe(breakdown, OTROS)

ConKwh(breakdown, cat, kwh) ==
    [breakdown EXCEPT ![cat] = [@ EXCEPT !.kwh = kwh]]

\* The body of the loop over flexible_cats for a category that is present
\* while exceso > 0; st is the pair of the breakdown and the double exceso.
ReducirEn(st, cat, kwh, reduccion) ==
    [breakdown |-> ConKwh(st.breakdown, cat,
                          Max(10, F64Int(F64Sub(F64FromInt(kwh), reduccion)))),
     exceso    |-> F64Sub(st.exceso, reduccion)]

\* One iteration of the loop over flexible_cats.
ReducirCategoria(st, cat) ==
    IF cat \in DOMAIN st.breakdown /\ F64Lt(F64Zero, st.exceso)
    THEN ReducirEn(st, cat, st.breakdown[cat].kwh,
                   F64Min(F64Times03(st.breakdown[cat].kwh), st.exceso))
    ELSE st

RECURSIVE ReducirDesde(_, _)
ReducirDesde(st, i) ==
    IF i > Len(flexible_cats) THEN st
    ELSE ReducirDesde(ReducirCategoria(st, flexible_cats[i]), i + 1)

\* The pass run when the estimates add up to suma_parcial > consumo_total.
ReducirExceso(breakdown, suma_parcial, consumo_total) ==
    IF suma_parcial > consumo_total
    THEN ReducirDesde([breakdown |-> breakdown,
                       exceso |-> F64FromInt(suma_parcial - consumo_total)], 1).breakdown
    ELSE breakdown

\* Lines 174-188: the breakdown after the reduction pass.
ReducirFlexibles(breakdown, consumo_total) ==
    ReducirExceso(breakdown, SumaKwh(breakdown), consumo_total)

\* Mutant: the overshoot is taken from standby without the floor of 10.
AbsorberEnStandby_SinPiso(kwh, residual) == kwh + residual

\* The standby entry when an overshoot is left after the pass.
AbsorberEnStandby(kwh, residual) == Max(10, kwh + residual)

\* Mutant: 'Otros' is added from a residual of 5 on.
AsignarResidual_DesdeCinco(breakdown, residual) ==
    IF residual >= 5
    THEN Poner(breakdown, OTROS, Categoria(residual, "low"))
    ELSE IF residual < 0 /\ STANDBY \in DOMAIN breakdown
    THEN ConKwh(breakdown, STANDBY,
                AbsorberEnStandby(breakdown[STANDBY].kwh, residual))
    ELSE breakdown

\* Mutant: an overshoot of 5 or less is left alone as rounding slack.
AsignarResidual_HolguraNegativa(breakdown, residual) ==
    IF residual > 5
    THEN Poner(breakdown, OTROS, Categoria(residual, "low"))
    ELSE IF residual < -5 /\ STANDBY \in DOMAIN breakdown
    THEN ConKwh(breakdown, STANDBY,
                AbsorberEnStandby(breakdown[STANDBY].kwh, residual))
    ELSE breakdown

\* Mutant: a residual of up to 10 kWh is left unassigned.
AsignarResidual_HolguraDeDiez(breakdown, residual) ==
    IF residual > 10
    THEN Poner(breakdown, OTROS, Categoria(residual, "low"))
    ELSE IF residual < 0 /\ STANDBY \in DOMAIN breakdown
    THEN ConKwh(breakdown, STANDBY,
                AbsorberEnStandby(breakdown[STANDBY].kwh, residual))
    ELSE breakdown

\* Lines 192-203: 'Otros' for a residual above 5, the standby entry for an
\* overshoot.
AsignarResidual(breakdown, residual) ==
    IF residual > 5
    THEN Poner(breakdown, OTROS, Categoria(residual, "low"))
    ELSE IF residual < 0 /\ STANDBY \in DOMAIN breakdown
    THEN ConKwh(breakdown, STANDBY,
                AbsorberEnStandby(breakdown[STANDBY].kwh, residual))
    ELSE breakdown

SupuestosResidual(residual) ==
    IF residual > 5
    THEN <<Nota("Otros consumos no identificados: {} kWh", residual, 0)>>
    ELSE <<>>

\* residual of line 191, for the breakdown left by the reduction pass.
Residual(breakdown, consumo_total) == consumo_total - SumaKwh(breakdown)

(***************************************************************************)
(* Global confidence                                                       *)
(***************************************************************************)
\* Truth value of a nullable number: None and 0 are false.
Truthy(v) == v # NONE /\ v # 0

\* Mutant: the declared amount and readings are looked at before the tariff.
ConfianzaGlobal_LecturasPrimero(b) ==
    IF Truthy(b.total_recibo_mxn) /\ Truthy(b.lectura_anterior)
                                  /\ Truthy(b.lectura_actual)
    THEN "high"
    ELSE IF b.tarifa = "DESCONOZCO" THEN "low"
    ELSE "medium"

ConfianzaGlobal(b) ==
    IF b.tarifa = "DESCONOZCO" THEN "low"
    ELSE IF Truthy(b.total_recibo_mxn) /\ Truthy(b.lectura_anterior)
                                       /\ Truthy(b.lectura_actual)
    THEN "high"
    ELSE "medium"

SupuestosConfianza(b) ==
    IF b.tarifa = "DESCONOZCO"
    THEN <<Nota("Tarifa desconocida: se uso tarifa promedio", 0, 0)>>
    ELSE <<>>

(***************************************************************************)
(* Percentages: round(kwh / consumo_total * 100, 1), in tenths.            *)
(* The quotient and the product are doubles and round() goes to the tenth  *)
(* nearest to the double it is given.  The double is within 2^-51 of       *)
(* 100 * kwh / consumo_total, so it decides only when that number lies     *)
(* halfway between two tenths: then kwh / consumo_total = q / 2000 for an  *)
(* odd q, and the side on which the double falls is computed from q.       *)
(***************************************************************************)
RECURSIVE PowMod(_, _, _)
\* b^e modulo m.
PowMod(b, e, m) == IF e = 0 THEN 1 % m ELSE (PowMod(b, e - 1, m) * b) % m

RECURSIVE F64Normalizar(_, _)
\* <<x * 2^j, w + j>> for the least j with x * 2^j >= 2000 * 2^14.
F64Normalizar(x, w) ==
    IF x >= 32768000 THEN <<x, w>> ELSE F64Normalizar(2 * x, w + 1)

\* The tenth that round(x, 1) gives for the double x = fl(fl(q / 2000) * 100),
\* q odd.  Write q * 2^s / 2000 = M + r / 125 with 2^52 <= M < 2^53: P is
\* q * 2^(s-4) modulo 125 * 256, which gives r and the low bits of M; the
\* quotient is M or M + 1; g is the spacing of the doubles around 100 times
\* the quotient, in units of the quotient's last bit.  The double is above
\* q / 20 exactly when 100 * up + delta > 0.8 * r; when it is q / 20 itself
\* round() goes to the even tenth.
PctMedio(q, P, g) ==
    LET r     == P % 125
        up    == IF 2 * r > 125 THEN 1 ELSE 0
        M1    == (((P - r) \div 125) + up) % 256
        Z     == (100 * M1) % (2 * g)
        rem   == Z % g
        delta == IF 2 * rem < g \/ (2 * rem = g /\ Z < g) THEN -rem ELSE g - rem
        lhs   == 5 * (100 * up + delta)
        m     == (q - 1) \div 2
    IN  IF lhs > 4 * r THEN m + 1
        ELSE IF lhs < 4 * r THEN m
        ELSE IF m % 2 = 0 THEN m ELSE m + 1

\* n = <<q * 2^w, w>> with 2000 * 2^14 <= q * 2^w < 4000 * 2^14.
PctMedioEn(q, n) ==
    PctMedio(q, ((q % 32000) * PowMod(2, n[2] + 34, 32000)) % 32000,
             IF n[1] < 41943040 THEN 64 ELSE 128)

\* round(kwh / consumo_total * 100, 1) in tenths, consumo_total > 0.
Pct(kwh, consumo_total) ==
    IF (2000 * kwh) % consumo_total = 0 /\ ((2000 * kwh) \div consumo_total) % 2 = 1
    THEN PctMedioEn((2000 * kwh) \div consumo_total,
                    F64Normalizar((2000 * kwh) \div consumo_total, 0))
    ELSE (2000 * kwh + consumo_total) \div (2 * consumo_total)

\* Lines 206-207: every entry gets its percentage.
ConPorcentajes(breakdown, consumo_total) ==
    [cat \in DOMAIN breakdown |->
        [kwh |-> breakdown[cat].kwh, confianza |-> breakdown[cat].confianza,
         pct |-> Pct(breakdown[cat].kwh, consumo_total)]]

(***************************************************************************)
(* Recommendations.  costo_por_kwh is the Decimal quotient of the cost by  *)
(* the total, rounded to the 28 significant digits of the default context; *)
(* ahorro_kwh * costo_por_kwh is rounded to 28 digits again and quantized  *)
(* to 0.01 with the context's rounding, ROUND_HALF_EVEN.                   *)
(***************************************************************************)
RECURSIVE DecadaArriba(_, _, _)
DecadaArriba(num, den, e) ==
    IF num >= den * 10 THEN DecadaArriba(num, den * 10, e + 1) ELSE e

RECURSIVE DecadaAbajo(_, _, _)
DecadaAbajo(num, den, e) ==
    IF num < den THEN DecadaAbajo(num * 10, den, e - 1) ELSE e

\* The largest e with 10^e <= num / den, for num, den > 0.
Decada(num, den) ==
    IF num >= den THEN DecadaArriba(num, den, 0) ELSE DecadaAbajo(num, den, 0)

\* The quantized product when ahorro * costo / total is f + 1/2 centavos.
\* X is costo * 10^n modulo 2 * total, where n gives the quotient 28 digits:
\* it tells the remainder of the division and whether the 28th digit is odd.
\* The quotient is then off by rho / total of its last digit, upwards or
\* downwards; the product keeps that error unless it is rounded away with
\* the d digits the product has more than the quotient.
AhorroMedio(ahorro, total, f, X, d) ==
    LET even == IF f % 2 = 0 THEN f ELSE f + 1
        remq == X % total
        odd  == ((X - remq) \div total) % 2 = 1
        up   == 2 * remq > total \/ (2 * remq = total /\ odd)
        rho  == IF up THEN total - remq ELSE remq
    IN  IF remq = 0 THEN even
        ELSE IF 2 * ahorro * rho <= total * PowMod(10, d, 1000000000) THEN even
        ELSE IF up THEN f + 1 ELSE f

\* float((Decimal(ahorro) * costo_por_kwh).quantize(Decimal('0.01'))) in
\* centavos, for the cost in centavos and total > 0.
AhorroMxnDe(ahorro, costo, total, f, rem) ==
    IF 2 * rem < total THEN f
    ELSE IF 2 * rem > total THEN f + 1
    ELSE AhorroMedio(ahorro, total, f,
                     ((costo % (2 * total))
                        * PowMod(10, 27 - Decada(costo, total), 2 * total)) % (2 * total),
                     Decada(2 * f + 1, 2) - Decada(costo, total))

AhorroMxn(ahorro, costo, total) ==
    AhorroMxnDe(ahorro, costo, total, (ahorro * costo) \div total,
                (ahorro * costo) % total)

\* One entry of recomendaciones; the amounts are in centavos and in
\* hundredths of a kg.
Recomendacion(titulo, descripcion, ahorro_kwh, costo_total, consumo_total, costo, dificultad) ==
    [titulo |-> titulo, descripcion |-> descripcion, ahorro_kwh |-> ahorro_kwh,
     ahorro_mxn |-> AhorroMxn(ahorro_kwh, costo_total, consumo_total),
     ahorro_co2e |-> compute_co2e_kg(ahorro_kwh),
     costo |-> costo, dificultad |-> dificultad]

TITULO_AC == "Optimizar uso del aire acondicionado"

TITULO_REF == "Revisar refrigerador antiguo"

TITULO_LED == "Cambiar a iluminacion LED"

TITULO_STANDBY == "Reducir consumo standby"

TITULO_SECADORA == "Reducir uso de secadora"

\* Lines 216-278: the candidates in the order they are appended; c is the
\* estimated cost of the bill and t its consumption.
Candidatas(s, breakdown, c, t) ==
    (IF CLIMATIZACION \in DOMAIN breakdown /\ breakdown[CLIMATIZACION].kwh > 100
     THEN <<Recomendacion(TITULO_AC,
                "Subir el termostato 2 C, limpiar filtros mensualmente, y sellar puertas/ventanas.",
                IntVeces(breakdown[CLIMATIZACION].kwh, 12), c, t, "gratis", "facil")>>
     ELSE <<>>)
    \o (IF s.ref_antiguedad = "old"
        THEN <<Recomendacion(TITULO_REF,
                "Verificar sello de la puerta, ajustar temperatura a 4 C. A mediano plazo, considerar reemplazo.",
                IntVeces(RefKwh(s), 10), c, t, "bajo", "facil")>>
        ELSE <<>>)
    \o <<Recomendacion(TITULO_LED,
                "Reemplazar focos incandescentes por LED y apagar luces al salir.",
                20, c, t, "bajo", "facil")>>
    \o (IF STANDBY \in DOMAIN breakdown /\ breakdown[STANDBY].kwh > 40
        THEN <<Recomendacion(TITULO_STANDBY,
                "Usar regletas con switch para apagar dispositivos completamente cuando no se usen.",
                15, c, t, "bajo", "facil")>>
        ELSE <<>>)
    \o (IF s.secadora
        THEN <<Recomendacion(TITULO_SECADORA,
                "Secar ropa al aire libre cuando sea posible. Usar la secadora solo en emergencias.",
                60, c, t, "gratis", "facil")>>
        ELSE <<>>)

\* rec put into a list sorted by ahorro_kwh, largest first, after the
\* entries that save as much: the place a stable sort gives it.
Insertar(lista, rec, i) ==
    SubSeq(lista, 1, i - 1) \o <<rec>> \o SubSeq(lista, i, Len(lista))

RECURSIVE LugarDe_AntesDeIguales(_, _, _)
\* Mutant: an entry goes before the entries that save as much.
LugarDe_AntesDeIguales(lista, rec, i) ==
    IF i <= Len(lista) /\ lista[i].ahorro_kwh > rec.ahorro_kwh
    THEN LugarDe_AntesDeIguales(lista, rec, i + 1) ELSE i

RECURSIVE LugarDe(_, _, _)
LugarDe(lista, rec, i) ==
    IF i <= Len(lista) /\ lista[i].ahorro_kwh >= rec.ahorro_kwh
    THEN LugarDe(lista, rec, i + 1) ELSE i

RECURSIVE OrdenarDesde(_, _, _)
OrdenarDesde(recs, i, lista) ==
    IF i > Len(recs) THEN lista
    ELSE OrdenarDesde(recs, i + 1, Insertar(lista, recs[i], LugarDe(lista, recs[i], 1)))

\* sorted(recomendaciones, key=lambda x: x['ahorro_kwh'], reverse=True)
Ordenar(recs) == OrdenarDesde(recs, 1, <<>>)

\* Mutant: only the first two are kept.
Top3_SoloDos(recs) == SubSeq(recs, 1, Min(2, Len(recs)))

\* Lines 210-281: sorted by the kWh saved, the first three.
Top3(recs) == SubSeq(recs, 1, Min(3, Len(recs)))

\* Mutant: the candidates are generated from the estimates of steps 1-7.
Recomendaciones_SobreElInicial(b, s, breakdown) ==
    Top3(Ordenar(Candidatas(s, BreakdownInicial(b.consumo_kwh, s),
                            compute_cost_mxn(b.consumo_kwh, b.tarifa), b.consumo_kwh)))

Recomendaciones(b, s, breakdown) ==
    Top3(Ordenar(Candidatas(s, breakdown, compute_cost_mxn(b.consumo_kwh, b.tarifa),
                            b.consumo_kwh)))

(***************************************************************************)
(* compute_breakdown_and_recs                                              *)
(***************************************************************************)
\* The returned dict, for the breakdown as lines 174-203 leave it.
Resultado(b, s, breakdown, residual) ==
    [breakdown |-> ConPorcentajes(breakdown, b.consumo_kwh),
     recomendaciones |-> Recomendaciones(b, s, breakdown),
     supuestos |-> SupuestosIniciales(s) \o SupuestosResidual(residual)
                       \o SupuestosConfianza(b),
     confianza_global |-> ConfianzaGlobal(b)]

\* Lines 205-210 divide by consumo_total.  The loop that sets the percentages
\* divides a float once per category, so with a total of 0 it raises
\* ZeroDivisionError unless the breakdown is empty; the price per kWh then
\* divides the Decimal 0.00 by Decimal(0).
Devolver(b, s, breakdown, residual) ==
    IF b.consumo_kwh = 0 /\ DOMAIN breakdown # {}
    THEN Raised("ZeroDivisionError")
    ELSE IF b.consumo_kwh = 0 THEN Raised("InvalidOperation")
    ELSE Value(Resultado(b, s, breakdown, residual))

ResultadoDe(b, s, reducido, residual) ==
    Devolver(b, s, AsignarResidual(reducido, residual), residual)

ResultadoTras(b, s, reducido) ==
    ResultadoDe(b, s, reducido, Residual(reducido, b.consumo_kwh))

compute_breakdown_and_recs(b, s) ==
    ResultadoTras(b, s, ReducirFlexibles(BreakdownInicial(b.consumo_kwh, s),
                                         b.consumo_kwh))

(***************************************************************************)
(* Calls of compute_breakdown_and_recs.                                    *)
(***************************************************************************)
\* Survey.ac_horas_dia: MaxValueValidator(24).
MaxHoras == 24

\* Survey.personas_en_casa: MaxValueValidator(15).
MaxPersonas == 15

\* Every total up to MaxTotal with every mix of appliances, on a bill that
\* declares nothing optional.
EntradasAjuste ==
    /\ \E c \in 0..MaxTotal : bill = BillOf(c, "1C")
    /\ survey \in [refrigeradores : {1, 2}, ref_antiguedad : {"new", "mid", "old"},
                   ac_count : {0, 1, 2}, ac_horas_dia : {HorasAjuste},
                   agua_caliente : {"gas", "elec"}, personas_en_casa : {1},
                   lavadora : BOOLEAN, secadora : BOOLEAN, home_office : BOOLEAN,
                   bombeo_agua : BOOLEAN]

\* Every A/C answer, on a few totals up to the 5000 kWh a bill may declare.
EntradasClima ==
    /\ \E c \in {90, 280, 800, 5000} : bill = BillOf(c, "1C")
    /\ survey \in [refrigeradores : {1}, ref_antiguedad : {"mid"},
                   ac_count : {0, 1, 2}, ac_horas_dia : 0..MaxHoras,
                   agua_caliente : {"gas"}, personas_en_casa : {1},
                   lavadora : {TRUE}, secadora : {FALSE}, home_office : BOOLEAN,
                   bombeo_agua : BOOLEAN]

\* Every water-heating answer.
EntradasAgua ==
    /\ \E c \in {90, 280, 800} : bill = BillOf(c, "1C")
    /\ survey \in [refrigeradores : {1}, ref_antiguedad : {"mid"},
                   ac_count : {0}, ac_horas_dia : {0},
                   agua_caliente : {"gas", "elec", "none"},
                   personas_en_casa : 1..MaxPersonas,
                   lavadora : BOOLEAN, secadora : {FALSE}, home_office : {FALSE},
                   bombeo_agua : {FALSE}]

\* The values of a nullable number: absent, zero and some positive value.
Opcional(v) == {NONE, 0, v}

\* Every tariff code with every combination of the optional fields read by
\* the confidence rule, on a few totals and households.
EntradasConfianza ==
    /\ bill \in [consumo_kwh : {0, 90, 280, 800}, tarifa : Tarifas,
                 total_recibo_mxn : Opcional(24500),
                 lectura_anterior : Opcional(1200),
                 lectura_actual : Opcional(1480)]
    /\ survey \in {NoSurvey,
                   [NoSurvey EXCEPT !.ac_count = 2, !.ac_horas_dia = 6,
                                    !.ref_antiguedad = "old", !.secadora = TRUE]}

InitDesglose ==
    /\ pc = "call"
    /\ op = "compute_breakdown_and_recs"
    /\ EntradasAjuste \/ EntradasClima \/ EntradasAgua \/ EntradasConfianza
    /\ ret = NoRet
    /\ analysis = DoesNotExist
    /\ api = NoApi
    /\ llamadas = 0
    /\ bills = <<>>
    /\ session = <<>>

CallBreakdown ==
    /\ pc = "call"
    /\ op = "compute_breakdown_and_recs"
    /\ ret' = compute_breakdown_and_recs(bill, survey)
    /\ pc' = "done"
    /\ UNCHANGED <<op, bill, survey, analysis, api, llamadas, bills, session>>

NextDesglose == CallBreakdown

SpecDesglose == InitDesglose /\ [][NextDesglose]_vars

(***************************************************************************)
(* JSON values, as json.loads decodes them.  A number is held in           *)
(* thousandths (milesimas), so that round(x, 2) has something to round; a  *)
(* string that is parsed is a sequence of one-character strings, a string  *)
(* that is only copied or compared is a TLA+ string.                       *)
(***************************************************************************)
(* JSON values, as json.loads decodes them: null, a number, a string, and  *)
(* records tagged "bool", "list", "object" and "dict" the same way.  A     *)
(* number is held in thousandths, so that round(x, 2) has something to     *)
(* round, with f telling a finite number from "inf" and "nan"; a string    *)
(* that is parsed is a sequence of one-character strings, a string that is *)
(* only copied or compared is a TLA+ string.                               *)
(***************************************************************************)
JNull == [t |-> "null"]

JNum(n) == [t |-> "num", f |-> "fin", n |-> n]

JStr(s) == [t |-> "str", s |-> s]

\* A key the dict does not hold.
AUSENTE == [t |-> "absent"]

\* dict.get(key, default)
Get(r, key, default) == IF r[key].t = "absent" THEN default ELSE r[key]

\* Python truthiness of a decoded value (or of a missing key: .get gives None).
TruthyJson(v) ==
    CASE v.t \in {"null", "absent"} -> FALSE
      [] v.t = "num" -> ~(v.f = "fin" /\ v.n = 0)
      [] v.t = "str" -> v.s # <<>>
      [] v.t = "bool" -> v.b
      [] v.t = "list" -> v.items # <<>>
      [] OTHER -> TRUE

(***************************************************************************)
(* float(), int() and round(, 2) of Python on decoded values.  Of the      *)
(* numerals float() accepts, the ones read here are: blanks around, digits *)
(* with at most one point and at most three decimals, a sign before them,  *)
(* "inf" and "nan"; the texts of the replies hold no other numeral (no     *)
(* exponent, no signed integer where int() reads a text).                  *)
(***************************************************************************)
\* str.strip()
RECURSIVE Strip(_)
Strip(s) ==
    IF s # <<>> /\ Head(s) = " " THEN Strip(Tail(s))
    ELSE IF s # <<>> /\ s[Len(s)] = " " THEN Strip(SubSeq(s, 1, Len(s) - 1))
    ELSE s

SoloDigitos(s) == \A i \in 1..Len(s) : \E d \in 0..9 : ToString(d) = s[i]

RECURSIVE Entero(_)
Entero(s) ==
    IF s = <<>> THEN 0
    ELSE 10 * Entero(SubSeq(s, 1, Len(s) - 1))
         + (CHOOSE d \in 0..9 : ToString(d) = s[Len(s)])

\* float(str) of a numeral "ddd", "ddd.ddd", "ddd." or ".ddd" with or without
\* a sign before it, in thousandths.
Milesimas(s) ==
    LET u == IF s # <<>> /\ Head(s) \in {"-", "+"} THEN Tail(s) ELSE s
        puntos == {i \in 1..Len(u) : u[i] = "."}
        p == IF puntos = {} THEN Len(u) + 1 ELSE CHOOSE i \in puntos : TRUE
        ent == SubSeq(u, 1, p - 1)
        dec == SubSeq(u, p + 1, Len(u))
        m == Entero(ent) * 1000 + Entero(SubSeq(dec \o <<"0", "0", "0">>, 1, 3))
    IN  IF Cardinality(puntos) <= 1 /\ SoloDigitos(ent) /\ SoloDigitos(dec)
           /\ Len(ent) + Len(dec) > 0
        THEN Value(JNum(IF Head(s) = "-" THEN -m ELSE m))
        ELSE Raised("ValueError")

\* float(valor)
PyFloat(v) ==
    CASE v.t = "num" -> Value(v)
      [] v.t = "str" ->
            IF Strip(v.s) = <<"i", "n", "f">>
            THEN Value([t |-> "num", f |-> "inf", n |-> 0])
            ELSE IF Strip(v.s) = <<"n", "a", "n">>
            THEN Value([t |-> "num", f |-> "nan", n |-> 0])
            ELSE Milesimas(Strip(v.s))
      [] v.t = "bool" -> Value(JNum(IF v.b THEN 1000 ELSE 0))
      [] OTHER -> Raised("TypeError")

\* int(x) of the float that x returned: truncation toward zero.
IntDe(x) ==
    IF x.kind = "error" THEN x
    ELSE CASE x.value.f = "inf" -> Raised("OverflowError")
           [] x.value.f = "nan" -> Raised("ValueError")
           [] OTHER -> Value(JNum(IF x.value.n >= 0
                                  THEN (x.value.n \div 1000) * 1000
                                  ELSE -(((-x.value.n) \div 1000) * 1000)))

\* int(valor): a string must be an integer numeral.
PyInt(v) ==
    CASE v.t = "num" -> IntDe(Value(v))
      [] v.t = "str" ->
            IF Strip(v.s) # <<>> /\ SoloDigitos(Strip(v.s))
            THEN Value(JNum(Entero(Strip(v.s)) * 1000))
            ELSE Raised("ValueError")
      [] v.t = "bool" -> Value(JNum(IF v.b THEN 1000 ELSE 0))
      [] OTHER -> Raised("TypeError")

\* round(x, 2) of the float that x returned: the nearest hundredth; inf and
\* nan stay.  The replies hold no numeral with a 5 in the thousandths, where
\* the result depends on the binary expansion of x.
Redondeado(x) ==
    IF x.kind = "value" /\ x.value.f = "fin"
    THEN Value(JNum(((x.value.n + 5) \div 10) * 10))
    ELSE x

(***************************************************************************)
(* get_recommendations.  `a` is what the environment gives the call:       *)
(* whether OPENAI_API_KEY is set, and what the chat completion does.  The  *)
(* content of a reply is the code fences around it, which lines 216-217    *)
(* remove, and its body: a text that json.loads decodes to `valor` (forma  *)
(* "json"), a text with no bracket pair (forma "prosa"), a text around a   *)
(* bracketed list that decodes to `valor` (forma "prosa_con_lista") or     *)
(* around brackets that do not decode (forma "prosa_con_corchetes").       *)
(***************************************************************************)
CAMPOS == <<"titulo", "descripcion", "tipo", "ahorro_mensual_mxn",
            "ahorro_anual_mxn", "reduccion_co2_kg_anual",
            "costo_inversion_mxn", "retorno_meses", "prioridad">>

\* One field of the cleaned dict (lines 237-245) of the i-th item (from 0);
\* str() leaves a string as it is and prints None.
Campo(r, campo, i) ==
    CASE campo = "titulo" ->
            Value(IF Get(r, "titulo", JStr("Sin titulo")).t = "str"
                  THEN Get(r, "titulo", JStr("Sin titulo")) ELSE JStr("None"))
      [] campo = "descripcion" ->
            Value(IF Get(r, "descripcion", JStr("")).t = "str"
                  THEN Get(r, "descripcion", JStr("")) ELSE JStr("None"))
      [] campo = "tipo" -> Value(Get(r, "tipo", JStr("sin_inversion")))
      [] campo \in {"ahorro_mensual_mxn", "ahorro_anual_mxn",
                    "reduccion_co2_kg_anual"} ->
            Redondeado(PyFloat(Get(r, campo, JNum(0))))
      [] campo = "costo_inversion_mxn" ->
            IF TruthyJson(r.costo_inversion_mxn)
            THEN Redondeado(PyFloat(r.costo_inversion_mxn)) ELSE Value(JNull)
      [] campo = "retorno_meses" ->
            IF TruthyJson(r.retorno_meses) THEN PyInt(r.retorno_meses)
            ELSE Value(JNull)
      [] campo = "prioridad" -> PyInt(Get(r, "prioridad", JNum((i + 1) * 1000)))

\* Place of the first exception among the outcomes c, in the order they
\* are evaluated.
PrimerFallo(c, orden) ==
    CHOOSE k \in 1..Len(orden) :
        /\ c[orden[k]].kind = "error"
        /\ \A j \in 1..(k - 1) : c[orden[j]].kind = "value"

\* What the outcomes c, evaluated in this order, leave: their values, or the
\* first exception.
Reunir(c, orden) ==
    IF \E k \in DOMAIN c : c[k].kind = "error" THEN c[orden[PrimerFallo(c, orden)]]
    ELSE Value([k \in DOMAIN c |-> c[k].value])

\* The dict appended for one item (lines 236-246); an item that is no dict
\* has no .get.
Limpiar(r, i) ==
    IF r.t # "dict" THEN Raised("AttributeError")
    ELSE Reunir([campo \in {CAMPOS[k] : k \in 1..Len(CAMPOS)} |-> Campo(r, campo, i)],
                CAMPOS)

\* recs[:5]
MAX_RECS == 5

\* The loop of lines 234-246 over recs[:5].
Cleaned(recs) ==
    Reunir([i \in 1..Min(Len(recs), MAX_RECS) |-> Limpiar(recs[i], i - 1)],
           [i \in 1..Min(Len(recs), MAX_RECS) |-> i])

get_recommendations(a) ==
    IF ~a.api_key THEN Raised("RuntimeError")
    ELSE IF a.respuesta.kind = "error" THEN Raised(a.respuesta.error)
    ELSE IF a.respuesta.content.cuerpo.forma = "prosa" THEN Value(<<>>)
    ELSE IF a.respuesta.content.cuerpo.forma = "prosa_con_corchetes"
         THEN Raised("JSONDecodeError")
    ELSE IF a.respuesta.content.cuerpo.valor.t # "list" THEN Value(<<>>)
    ELSE Cleaned(a.respuesta.content.cuerpo.valor.items)

(***************************************************************************)
(* What the environment may give get_recommendations.                      *)
(***************************************************************************)
MaxLista == 6             \* longest list the external model returns

Dict(titulo, tipo, ahorros, costo, retorno, prioridad) ==
    [t |-> "dict", titulo |-> titulo, descripcion |-> titulo, tipo |-> tipo,
     ahorro_mensual_mxn |-> ahorros[1], ahorro_anual_mxn |-> ahorros[2],
     reduccion_co2_kg_anual |-> ahorros[3], costo_inversion_mxn |-> costo,
     retorno_meses |-> retorno, prioridad |-> prioridad]

\* 85.506 MXN a month, 1026.072 a year, 309.428 kg of CO2e a year.
AhorrosDados == <<JNum(85506), JNum(1026072), JNum(309428)>>

\* One item with every mix of type tag, investment cost and payback period,
\* and items whose other fields are missing, null or of another type.
ItemsDados ==
    {Dict(JStr("Ajusta el termostato"), tipo, AhorrosDados, costo, retorno,
          JNum(1000)) :
        tipo \in {AUSENTE, JNull, JStr("sin_inversion"), JStr("con_inversion"),
                  JStr("habito")},
        costo \in {AUSENTE, JNull, JNum(0), JNum(3499994),
                   JStr(<<"1", "2", "0", "0", ".", "5">>),
                   JStr(<<"c", "a", "r", "o">>), JStr(<<>>)},
        retorno \in {AUSENTE, JNull, JNum(0), JNum(7600), JStr(<<" ", "1", "4">>),
                     JStr(<<"1", "4", ".", "5">>),
                     [t |-> "num", f |-> "inf", n |-> 0]}}
    \cup
    {Dict(titulo, JStr("sin_inversion"), ahorros, AUSENTE, AUSENTE, prioridad) :
        titulo \in {AUSENTE, JNull, JStr("Desconecta cargadores")},
        ahorros \in {AhorrosDados, <<AUSENTE, AUSENTE, AUSENTE>>,
                     <<JNum(85506), JNull, JNum(309428)>>,
                     <<JNum(85506), JNum(1026072), JStr(<<"m", "u", "c", "h", "o">>)>>},
        prioridad \in {AUSENTE, JNull, JNum(2000), JStr(<<"3">>)}}

\* The k-th item of a well-formed reply: three habits, then investments.
ItemNumero(k) ==
    IF k <= 3
    THEN Dict(JStr("Habito"), JStr("sin_inversion"), AhorrosDados, JNull, JNull,
              JNum(k * 1000))
    ELSE Dict(JStr("Inversion"), JStr("con_inversion"), AhorrosDados,
              JNum(3499994), JNum(41000), JNum(k * 1000))

ListasDadas ==
    {<<r>> : r \in ItemsDados}
    \cup {[k \in 1..n |-> ItemNumero(k)] : n \in 0..MaxLista}
    \cup {<<ItemNumero(1), JStr("Apaga las luces")>>,
          <<JNum(1000), ItemNumero(1)>>}

Entornos ==
    {[api_key |-> FALSE, respuesta |-> [kind |-> "none"]]}
    \cup {[api_key |-> TRUE, respuesta |-> [kind |-> "error", error |-> e]] :
             e \in {"APIConnectionError", "RateLimitError"}}
    \cup {[api_key |-> TRUE,
           respuesta |-> [kind |-> "content",
                          content |-> [cercas |-> <<"", "">>,
                                       cuerpo |-> [forma |-> "json",
                                                   valor |-> [t |-> "list",
                                                              items |-> l]]]]] :
             l \in ListasDadas}
    \cup {[api_key |-> TRUE,
           respuesta |-> [kind |-> "content",
                          content |-> [cercas |-> c, cuerpo |-> b]]] :
             c \in {<<"", "">>, <<"fence", "fence">>, <<"fence json", "fence">>},
             b \in {[forma |-> "json",
                     valor |-> [t |-> "list",
                                items |-> [k \in 1..MAX_RECS |-> ItemNumero(k)]]],
                    [forma |-> "json", valor |-> [t |-> "object"]],
                    [forma |-> "json", valor |-> JNull],
                    [forma |-> "json", valor |-> JNum(5000)],
                    [forma |-> "prosa"],
                    [forma |-> "prosa_con_lista",
                     valor |-> [t |-> "list",
                                items |-> [k \in 1..MAX_RECS |-> ItemNumero(k)]]],
                    [forma |-> "prosa_con_corchetes"]}}

(***************************************************************************)
(* The results view.  `survey` and `analysis` are the rows related to the  *)
(* bill, DoesNotExist when there is none; `api` is what the environment    *)
(* gives get_recommendations for the bill; `llamadas` counts the calls of  *)
(* get_recommendations.  The requests for the bill are numbered: pc[r] is  *)
(* where request r stands and ret[r] the response it got.                  *)
(***************************************************************************)
NumSolicitudes == 2       \* results requests made for the bill

\* sum(r.get(campo, 0) for r in recs), over the first n items.
RECURSIVE SumaHasta(_, _, _)
SumaHasta(recs, campo, n) ==
    IF n = 0 THEN 0 ELSE recs[n][campo].n + SumaHasta(recs, campo, n - 1)

\* The context handed to the template (lines 292-306).
Render(recs) ==
    [kind |-> "render",
     recs_sin_inversion |->
         SelectSeq(recs, LAMBDA r : r.tipo.t = "str" /\ r.tipo.s = "sin_inversion"),
     recs_con_inversion |->
         SelectSeq(recs, LAMBDA r : r.tipo.t = "str" /\ r.tipo.s = "con_inversion"),
     total_ahorro_anual |-> SumaHasta(recs, "ahorro_anual_mxn", Len(recs)),
     total_co2 |-> SumaHasta(recs, "reduccion_co2_kg_anual", Len(recs))]

\* Lines 275-280: any exception of the generator leaves an empty list.
SiFalla(g) == IF g.kind = "error" THEN <<>> ELSE g.value

\* Lines 260-263: no survey, the request is redirected to the survey.
ResultsSinEncuesta ==
    \E r \in DOMAIN pc :
        /\ pc[r] = "request"
        /\ survey = DoesNotExist
        /\ ret' = [ret EXCEPT ![r] = [kind |-> "redirect", to |-> "energy:survey"]]
        /\ pc' = [pc EXCEPT ![r] = "done"]
        /\ UNCHANGED <<op, bill, survey, analysis, api, llamadas, bills, session>>

\* Mutant: a request that finds the stored analysis asks the generator again.
ResultsGuardado_LlamaOtraVez ==
    \E r \in DOMAIN pc :
        /\ pc[r] = "request"
        /\ survey # DoesNotExist
        /\ analysis # DoesNotExist
        /\ llamadas' = llamadas + 1
        /\ ret' = [ret EXCEPT ![r] = Render(SiFalla(get_recommendations(api)))]
        /\ pc' = [pc EXCEPT ![r] = "done"]
        /\ UNCHANGED <<op, bill, survey, analysis, api, bills, session>>

\* Lines 270-272: the stored recommendations are shown again.
ResultsGuardado ==
    \E r \in DOMAIN pc :
        /\ pc[r] = "request"
        /\ survey # DoesNotExist
        /\ analysis # DoesNotExist
        /\ ret' = [ret EXCEPT ![r] = Render(analysis.recomendaciones_json)]
        /\ pc' = [pc EXCEPT ![r] = "done"]
        /\ UNCHANGED <<op, bill, survey, analysis, api, llamadas, bills, session>>

\* Lines 273-290, when no other request runs meanwhile: the generator is
\* called and what it gave is stored.
ResultsGenerar ==
    \E r \in DOMAIN pc :
        /\ pc[r] = "request"
        /\ survey # DoesNotExist
        /\ analysis = DoesNotExist
        /\ llamadas' = llamadas + 1
        /\ analysis' = [costo_estimado_mxn |->
                            compute_cost_mxn(bill.consumo_kwh, bill.tarifa),
                        co2e_kg |-> compute_co2e_kg(bill.consumo_kwh),
                        recomendaciones_json |-> SiFalla(get_recommendations(api))]
        /\ ret' = [ret EXCEPT ![r] = Render(analysis'.recomendaciones_json)]
        /\ pc' = [pc EXCEPT ![r] = "done"]
        /\ UNCHANGED <<op, bill, survey, api, bills, session>>

\* The requests are answered one after another.
results == ResultsSinEncuesta \/ ResultsGuardado \/ ResultsGenerar

InitResults ==
    /\ pc = [r \in 1..NumSolicitudes |-> "request"]
    /\ op = "results"
    /\ \E c \in {90, 280}, t \in {"1C", "DAC"} : bill = BillOf(c, t)
    /\ survey \in {DoesNotExist, NoSurvey,
                   [NoSurvey EXCEPT !.ac_count = 2, !.ac_horas_dia = 6,
                                    !.ref_antiguedad = "old", !.secadora = TRUE]}
    /\ ret = [r \in 1..NumSolicitudes |-> NoRet]
    /\ analysis = DoesNotExist
    /\ api \in Entornos
    /\ llamadas = 0
    /\ bills = <<>>
    /\ session = <<>>

SpecResults == InitResults /\ [][results]_vars

(***************************************************************************)
(* The field mapping of the bill extractor (energy/services/ocr.py).  A    *)
(* text is a sequence of one-character strings; the only blank in the      *)
(* texts read here is the space.                                           *)
(***************************************************************************)
\* str.upper()
Upper(s) ==
    LET minusculas == <<"a", "b", "c", "d", "e", "f", "g", "h", "i", "j", "k",
                        "l", "m", "n", "o", "p", "q", "r", "s", "t", "u", "v",
                        "w", "x", "y", "z">>
        mayusculas == <<"A", "B", "C", "D", "E", "F", "G", "H", "I", "J", "K",
                        "L", "M", "N", "O", "P", "Q", "R", "S", "T", "U", "V",
                        "W", "X", "Y", "Z">>
    IN  [i \in 1..Len(s) |->
            IF \E k \in 1..26 : minusculas[k] = s[i]
            THEN mayusculas[CHOOSE k \in 1..26 : minusculas[k] = s[i]]
            ELSE s[i]]

\* re.sub(r"^TARIFA\s*", "", limpio), of a text that ends in no blank.
SinPrefijo(limpio) ==
    IF Len(limpio) >= 6 /\ SubSeq(limpio, 1, 6) = <<"T", "A", "R", "I", "F", "A">>
    THEN Strip(SubSeq(limpio, 7, Len(limpio)))
    ELSE limpio

TARIFA_VALIDAS == {<<"1">>, <<"1", "A">>, <<"1", "B">>, <<"1", "C">>, <<"1", "D">>,
                   <<"1", "E">>, <<"1", "F">>, <<"D", "A", "C">>}

\* _normalize_tarifa: only a string has .strip().
normalize_tarifa(valor) ==
    IF valor.t # "str" THEN Raised("AttributeError")
    ELSE IF SinPrefijo(Upper(Strip(valor.s))) \in TARIFA_VALIDAS
    THEN Value(JStr(SinPrefijo(Upper(Strip(valor.s)))))
    ELSE Value(JNull)

\* except (ValueError, TypeError): return None
Capturado(x) ==
    IF x.kind = "error" /\ x.error \in {"ValueError", "TypeError"}
    THEN Value(JNull) ELSE x

\* _safe_int
safe_int(valor) ==
    IF valor.t \in {"null", "absent"} THEN Value(JNull)
    ELSE Capturado(IntDe(PyFloat(valor)))

\* _safe_float
safe_float(valor) ==
    IF valor.t \in {"null", "absent"} THEN Value(JNull)
    ELSE Capturado(Redondeado(PyFloat(valor)))

\* _safe_int(...) or 1
OUno(x) == IF x.kind = "value" /\ ~TruthyJson(x.value) THEN Value(JNum(1000)) ELSE x

(***************************************************************************)
(* _parse_fecha: datetime.strptime with the five formats, in order.  A     *)
(* format is the separator, the order of the fields and the number of      *)
(* digits of the year (%Y: 4, %y: 2).  The result is the date, which       *)
(* strftime writes as YYYY-MM-DD (the texts read here hold no year below   *)
(* 1000, which strftime does not pad).                                     *)
(***************************************************************************)
FORMATOS == <<[sep |-> "/", orden |-> "dmy", anio |-> 4],
              [sep |-> "-", orden |-> "dmy", anio |-> 4],
              [sep |-> "-", orden |-> "ymd", anio |-> 4],
              [sep |-> "/", orden |-> "dmy", anio |-> 2],
              [sep |-> "-", orden |-> "dmy", anio |-> 2]>>

\* texto.split(sep)
RECURSIVE Partir(_, _)
Partir(s, sep) ==
    IF \A i \in 1..Len(s) : s[i] # sep THEN <<s>>
    ELSE <<SubSeq(s, 1, (CHOOSE i \in 1..Len(s) :
                            s[i] = sep /\ \A j \in 1..(i - 1) : s[j] # sep) - 1)>>
         \o Partir(SubSeq(s, (CHOOSE i \in 1..Len(s) :
                                 s[i] = sep /\ \A j \in 1..(i - 1) : s[j] # sep) + 1,
                          Len(s)), sep)

\* The date of day d, month m, year y, or the ValueError of a day that the
\* calendar does not hold.
FechaDe(d, m, y) ==
    IF /\ y >= 1 /\ m \in 1..12 /\ d >= 1
       /\ d <= (IF m = 2
                THEN (IF y % 4 = 0 /\ (y % 100 # 0 \/ y % 400 = 0) THEN 29 ELSE 28)
                ELSE IF m \in {4, 6, 9, 11} THEN 30 ELSE 31)
    THEN Value([t |-> "date", y |-> y, m |-> m, d |-> d])
    ELSE Raised("ValueError")

\* datetime.strptime of the fields c that the separator of fmt leaves: three
\* digit strings, one or two digits for day and month, four for %Y and two
\* for %y (69-99 are of the 1900s, 00-68 of the 2000s).
strptime(c, fmt) ==
    IF /\ Len(c) = 3
       /\ \A i \in 1..3 : SoloDigitos(c[i])
       /\ Len(c[2]) \in 1..2
       /\ Len(c[IF fmt.orden = "dmy" THEN 1 ELSE 3]) \in 1..2
       /\ Len(c[IF fmt.orden = "dmy" THEN 3 ELSE 1]) = fmt.anio
    THEN FechaDe(Entero(c[IF fmt.orden = "dmy" THEN 1 ELSE 3]), Entero(c[2]),
                 IF fmt.anio = 4 THEN Entero(c[IF fmt.orden = "dmy" THEN 3 ELSE 1])
                 ELSE IF Entero(c[3]) <= 68 THEN 2000 + Entero(c[3])
                 ELSE 1900 + Entero(c[3]))
    ELSE Raised("ValueError")

\* _parse_fecha, from the k-th format on.
RECURSIVE parse_fecha(_, _)
parse_fecha(texto, k) ==
    IF k > Len(FORMATOS) THEN JNull
    ELSE IF strptime(Partir(texto, FORMATOS[k].sep), FORMATOS[k]).kind = "value"
    THEN strptime(Partir(texto, FORMATOS[k].sep), FORMATOS[k]).value
    ELSE parse_fecha(texto, k + 1)

(***************************************************************************)
(* _parse_periodo: re.split(r"\s+(?:-|al|a)\s+", texto.strip(), maxsplit=1) *)
(***************************************************************************)
\* Length of the separator word that starts at p[j] between blanks, 0 if
\* none; p is the text with two characters after it that are no blank.
SeparadorEn(p, j) ==
    IF ~(j > 1 /\ p[j - 1] = " ") THEN 0
    ELSE IF p[j] = "-" /\ p[j + 1] = " " THEN 1
    ELSE IF p[j] = "a" /\ p[j + 1] = "l" /\ p[j + 2] = " " THEN 2
    ELSE IF p[j] = "a" /\ p[j + 1] = " " THEN 1
    ELSE 0

\* Place of the first separator word in the n characters of the text.
PrimerSeparador(p, n) ==
    CHOOSE j \in 1..n :
        SeparadorEn(p, j) > 0 /\ \A i \in 1..(j - 1) : SeparadorEn(p, i) = 0

\* Lines 198-204, of the stripped text s and the place j of its separator.
PeriodoDe(s, j) ==
    <<parse_fecha(Strip(SubSeq(s, 1, j - 1)), 1),
      parse_fecha(Strip(SubSeq(s, j + SeparadorEn(s \o <<".", ".">>, j), Len(s))), 1)>>

\* _parse_periodo: only a string has .strip().
parse_periodo(texto) ==
    IF ~TruthyJson(texto) THEN Value(<<JNull, JNull>>)
    ELSE IF texto.t # "str" THEN Raised("AttributeError")
    ELSE IF \A j \in 1..Len(Strip(texto.s)) :
                SeparadorEn(Strip(texto.s) \o <<".", ".">>, j) = 0
    THEN Value(<<JNull, JNull>>)
    ELSE Value(PeriodoDe(Strip(texto.s),
                         PrimerSeparador(Strip(texto.s) \o <<".", ".">>,
                                         Len(Strip(texto.s)))))

(***************************************************************************)
(* _map_to_bill_fields                                                     *)
(***************************************************************************)
\* The conversions in the order the function evaluates them (lines 140-163).
PASOS == <<"periodo", "tarifa", "consumo_kwh", "lectura_anterior",
           "lectura_actual", "total_recibo_mxn", "subsidio_mxn",
           "multiplicador", "periodo_basico_kwh", "periodo_intermedio_kwh",
           "periodo_excedente_kwh", "subtotal_basico_mxn",
           "subtotal_intermedio_mxn", "subtotal_excedente_mxn">>

Paso(raw, paso) ==
    CASE paso = "periodo" -> parse_periodo(raw.periodo_facturado)
      [] paso = "tarifa" ->
            IF TruthyJson(raw.tarifa) THEN normalize_tarifa(raw.tarifa)
            ELSE Value(JNull)
      [] paso = "consumo_kwh" -> safe_int(raw.consumo_total)
      [] paso = "lectura_anterior" -> safe_int(raw.lectura_anterior)
      [] paso = "lectura_actual" -> safe_int(raw.lectura_actual)
      [] paso = "total_recibo_mxn" -> safe_float(raw.total_pagar)
      [] paso = "subsidio_mxn" -> safe_float(raw.subsidio)
      [] paso = "multiplicador" -> OUno(safe_int(raw.multiplicador))
      [] paso \in {"periodo_basico_kwh", "periodo_intermedio_kwh",
                   "periodo_excedente_kwh"} -> safe_int(raw[paso])
      [] paso \in {"subtotal_basico_mxn", "subtotal_intermedio_mxn",
                   "subtotal_excedente_mxn"} -> safe_float(raw[paso])

\* The dict returned (lines 145-164) from the values x of the conversions,
\* or their first exception.
Mapeado(x) ==
    IF x.kind = "error" THEN x
    ELSE Value([k \in (DOMAIN x.value \ {"periodo"})
                       \cup {"periodo_inicio", "periodo_fin"} |->
                   IF k = "periodo_inicio" THEN x.value["periodo"][1]
                   ELSE IF k = "periodo_fin" THEN x.value["periodo"][2]
                   ELSE x.value[k]])

map_to_bill_fields(raw) ==
    Mapeado(Reunir([paso \in {PASOS[k] : k \in 1..Len(PASOS)} |-> Paso(raw, paso)],
                   PASOS))

(***************************************************************************)
(* Decoded replies handed to _map_to_bill_fields.                          *)
(***************************************************************************)
\* The reply read from a well-printed bill.
RawLegible ==
    [consumo_total |-> JNum(280000), lectura_anterior |-> JNum(1200000),
     lectura_actual |-> JNum(1480000), total_pagar |-> JNum(412506),
     tarifa |-> JStr(<<"1", "C">>), subsidio |-> JNum(150004),
     multiplicador |-> JNum(1000),
     periodo_facturado |-> JStr(<<"0", "1", "/", "1", "2", "/", "2", "0", "2", "4",
                                  " ", "-", " ",
                                  "3", "1", "/", "0", "1", "/", "2", "0", "2", "5">>),
     periodo_basico_kwh |-> JNum(150000), periodo_intermedio_kwh |-> JNum(130000),
     periodo_excedente_kwh |-> JNum(0), subtotal_basico_mxn |-> JNum(142506),
     subtotal_intermedio_mxn |-> JNum(150004), subtotal_excedente_mxn |-> JNum(0)]

NumerosDados ==
    {AUSENTE, JNull, JNum(0), JNum(280000), JNum(280904), JNum(-3704),
     [t |-> "num", f |-> "inf", n |-> 0], [t |-> "num", f |-> "nan", n |-> 0],
     [t |-> "bool", b |-> TRUE], [t |-> "bool", b |-> FALSE],
     [t |-> "list", items |-> <<JNum(280000)>>], [t |-> "object"],
     JStr(<<>>), JStr(<<"2", "8", "0", ".", "0">>), JStr(<<" ", "2", "8", "0", " ">>),
     JStr(<<"-", "1", "2", ".", "5", "0", "9">>), JStr(<<"1", ",", "2", "8", "0">>),
     JStr(<<"2", "8", "0", " ", "k", "W", "h">>), JStr(<<"i", "n", "f">>),
     JStr(<<"n", "a", "n">>), JStr(<<".">>), JStr(<<"7", ".">>)}

FechasDadas ==
    {<<"0", "1", "/", "1", "2", "/", "2", "0", "2", "4">>,
     <<"3", "1", "-", "0", "1", "-", "2", "0", "2", "5">>,
     <<"2", "0", "2", "4", "-", "0", "2", "-", "2", "9">>,
     <<"2", "0", "2", "5", "-", "0", "2", "-", "2", "9">>,
     <<"1", "/", "2", "/", "6", "8">>, <<"0", "3", "-", "0", "4", "-", "6", "9">>,
     <<"3", "1", "/", "0", "4", "/", "2", "0", "2", "5">>,
     <<"1", "2", "/", "1", "3", "/", "2", "0", "2", "4">>,
     <<"0", "1", "/", "1", "2", "-", "2", "0", "2", "4">>,
     <<"e", "n", "e", "r", "o">>, <<"0", "1", " ", "/", "1", "2", "/", "2", "4">>}

PeriodosDados ==
    {AUSENTE, JNull, JNum(0), JNum(2024000), [t |-> "bool", b |-> TRUE],
     [t |-> "list", items |-> <<JStr(<<"0", "1">>)>>], [t |-> "object"],
     JStr(<<>>), JStr(<<" ", "a", " ">>),
     JStr(<<"a", " ", "0", "1", "/", "1", "2", "/", "2", "0", "2", "4">>)}
    \cup {JStr(a \o s \o b) :
             a \in FechasDadas,
             s \in {<<" ", "-", " ">>, <<" ", "a", "l", " ">>, <<" ", " ", "a", " ">>,
                    <<"-">>, <<" ", "h", "a", "s", "t", "a", " ">>},
             b \in FechasDadas}
    \cup {JStr(a \o <<" ", "a", " ">> \o b \o <<" ", "a", "l", " ">> \o a \o <<" ">>) :
             a \in FechasDadas, b \in FechasDadas}

RawsDados ==
    {[RawLegible EXCEPT !.consumo_total = x, !.total_pagar = y,
                        !.periodo_excedente_kwh = y, !.subtotal_excedente_mxn = x] :
        x \in NumerosDados, y \in NumerosDados}
    \cup {[RawLegible EXCEPT !.multiplicador = x, !.lectura_anterior = x,
                             !.lectura_actual = x, !.subsidio = x,
                             !.periodo_basico_kwh = x, !.subtotal_basico_mxn = x] :
             x \in NumerosDados}
    \cup {[RawLegible EXCEPT !.tarifa = t, !.periodo_facturado = p] :
             t \in {AUSENTE, JNull, JNum(0), JNum(1000), [t |-> "bool", b |-> TRUE],
                    [t |-> "bool", b |-> FALSE],
                    [t |-> "list", items |-> <<JStr(<<"1", "C">>)>>], [t |-> "object"],
                    JStr(<<>>), JStr(<<" ">>), JStr(<<"1">>), JStr(<<"1", "C">>),
                    JStr(<<" ", "1", "c", " ">>), JStr(<<"D", "a", "c">>),
                    JStr(<<"T", "a", "r", "i", "f", "a", " ", "1", "F">>),
                    JStr(<<"T", "A", "R", "I", "F", "A", "1", "A">>),
                    JStr(<<"t", "a", "r", "i", "f", "a", " ", " ", "d", "a", "c">>),
                    JStr(<<"T", "A", "R", "I", "F", "A">>), JStr(<<"2">>),
                    JStr(<<"1", " ", "C">>), JStr(<<"1", "G">>),
                    JStr(<<"D", "E", "S", "C", "O", "N", "O", "Z", "C", "O">>),
                    JStr(<<"T", "1", "C">>)},
             p \in PeriodosDados}
    \cup {[k \in DOMAIN RawLegible |-> AUSENTE]}

(***************************************************************************)
(* Calls of _map_to_bill_fields: `api` is the decoded reply.               *)
(***************************************************************************)
InitOcr ==
    /\ pc = "call"
    /\ op = "_map_to_bill_fields"
    /\ bill = BillOf(0, "DESCONOZCO")
    /\ survey = NoSurvey
    /\ ret = NoRet
    /\ analysis = DoesNotExist
    /\ api \in RawsDados
    /\ llamadas = 0
    /\ bills = <<>>
    /\ session = <<>>

CallMapToBillFields ==
    /\ pc = "call"
    /\ op = "_map_to_bill_fields"
    /\ ret' = map_to_bill_fields(api)
    /\ pc' = "done"
    /\ UNCHANGED <<op, bill, survey, analysis, api, llamadas, bills, session>>

SpecOcr == InitOcr /\ [][CallMapToBillFields]_vars

(***************************************************************************)
(* Properties of compute_cost_mxn and compute_co2e_kg (under SpecCost).    *)
(***************************************************************************)
CostDone == pc = "done" /\ op = "compute_cost_mxn"

Co2eDone == pc = "done" /\ op = "compute_co2e_kg"

\* A code that names no tariff: the sentinel or a code outside the fixed set.
TarifaDesconocida(t) == t = "DESCONOZCO" \/ t \notin TARIFA_CHOICES

\* c * 6.38 * 1.16 rounded half-up to centavos, for c >= 0.
CostoTarifaAlta(c) == (c * 638 * 116 + 50) \div 100

\* 1.16 * (0.98*min(c,150) + 1.19*min(max(c-150,0),130) + 3.52*max(c-280,0))
\* rounded half-up to centavos, for c >= 0.
CostoTresEscalones(c) ==
    LET b == IF c < 150 THEN c ELSE 150
        i == IF c <= 150 THEN 0 ELSE IF c - 150 < 130 THEN c - 150 ELSE 130
        e == IF c <= 280 THEN 0 ELSE c - 280
    IN  ((98 * b + 119 * i + 352 * e) * 116 + 50) \div 100

\* C3: for 1 <= c <= 500 and a tariff other than DAC the cost is the stepped
\* schedule (0.98 / 1.19 / 3.52 per kWh over 150 / 130 / the rest) taxed once
\* at 1.16 and rounded half-up to 2 decimals; (100,'1C') = 113.68,
\* (200,'1C') = 239.54, (350,'1C') = 635.80.
C3_CostoEscalonado ==
    (CostDone /\ bill.consumo_kwh >= 1 /\ bill.consumo_kwh <= 500 /\ bill.tarifa # "DAC")
        => /\ ret = Value(CostoTresEscalones(bill.consumo_kwh))
           /\ (bill.consumo_kwh = 100 /\ bill.tarifa = "1C") => ret.value = 11368
           /\ (bill.consumo_kwh = 200 /\ bill.tarifa = "1C") => ret.value = 23954
           /\ (bill.consumo_kwh = 350 /\ bill.tarifa = "1C") => ret.value = 63580

C3_Witness ==
    CostDone /\ bill.consumo_kwh = 350 /\ bill.tarifa = "1C" /\ ret = Value(63580)

\* C4: for c > 0 with tariff DAC or c > 500 the whole consumption is billed at
\* 6.38 per kWh: the cost is c * 6.38 * 1.16 rounded half-up to 2 decimals,
\* whatever the declared tariff; (300,'DAC') = 2220.24, (600,'1C') = 4440.48.
C4_TarifaAlta ==
    (CostDone /\ bill.consumo_kwh > 0 /\ (bill.tarifa = "DAC" \/ bill.consumo_kwh > 500))
        => /\ ret = Value(CostoTarifaAlta(bill.consumo_kwh))
           /\ (bill.consumo_kwh = 300 /\ bill.tarifa = "DAC") => ret.value = 222024
           /\ bill.consumo_kwh = 600 => ret.value = 444048

C4_Witness ==
    CostDone /\ bill.consumo_kwh = 600 /\ bill.tarifa = "1C" /\ ret = Value(444048)

\* C5: for a fixed tariff the cost is non-decreasing in the consumption: every
\* positive c1 <= c2 costs at most what c2 costs.
C5_CostoMonotono ==
    (CostDone /\ bill.consumo_kwh >= 1)
        => \A c1 \in 1..bill.consumo_kwh :
               compute_cost_mxn(c1, bill.tarifa) <= ret.value

\* a pair that straddles the 500 kWh boundary (500 is below 501)
C5_Witness ==
    CostDone /\ bill.consumo_kwh = 501 /\ bill.tarifa = "1C"
             /\ compute_cost_mxn(500, "1C") < ret.value

\* C6: compute_cost_mxn with consumption <= 0 fails with a validation error
\* and returns no cost.
C6_ConsumoNoPositivoFalla ==
    (CostDone /\ bill.consumo_kwh <= 0) => ret.kind = "error"

\* C7 as stated: an unknown or unrecognized tariff code with c > 0 is billed
\* at the high rate, c * 6.38 * 1.16, also when c <= 500.
C7_DesconocidaTarifaAlta ==
    (CostDone /\ TarifaDesconocida(bill.tarifa) /\ bill.consumo_kwh > 0)
        => ret = Value(CostoTarifaAlta(bill.consumo_kwh))

\* C7 amended: an unknown or unrecognized tariff code with c > 0 does not
\* fail; it is billed by the stepped schedule when c <= 500, as every code
\* other than DAC, and at the high rate only when c > 500.
C7_DesconocidaEscalonada ==
    (CostDone /\ TarifaDesconocida(bill.tarifa) /\ bill.consumo_kwh > 0)
        => /\ ret.kind = "value"
           /\ ret.value = IF bill.consumo_kwh > 500
                          THEN CostoTarifaAlta(bill.consumo_kwh)
                          ELSE CostoTresEscalones(bill.consumo_kwh)

C7_Witness ==
    CostDone /\ bill.tarifa = "DESCONOZCO" /\ bill.consumo_kwh = 300
             /\ ret = Value(CostoTresEscalones(300))
             /\ ret # Value(CostoTarifaAlta(300))

\* C9: for c >= 0 the CO2e is c * 0.444 rounded half-up to 2 decimals;
\* 100 kWh give 44.40 kg, 0 kWh give 0.00 kg and 1000 kWh give 444.00 kg.
C9_Co2eMedioArriba ==
    (Co2eDone /\ bill.consumo_kwh >= 0)
        => /\ ret = Value((bill.consumo_kwh * 444 + 5) \div 10)
           /\ bill.consumo_kwh = 100 => ret.value = 4440
           /\ bill.consumo_kwh = 0 => ret.value = 0
           /\ bill.consumo_kwh = 1000 => ret.value = 44400

\* a consumption whose product has a 5 in the third decimal: 5 * 0.444 = 2.220
\* is exact, 7 * 0.444 = 3.108 rounds up to 3.11
C9_Witness ==
    Co2eDone /\ bill.consumo_kwh = 7 /\ ret = Value(311)

(***************************************************************************)
(* Properties of compute_breakdown_and_recs (under SpecDesglose).          *)
(***************************************************************************)
BreakdownDone == pc = "done" /\ op = "compute_breakdown_and_recs"

BreakdownReturned == BreakdownDone /\ ret.kind = "value"

\* The breakdown as the reduction pass leaves it, for the current inputs.
TrasReduccion ==
    ReducirFlexibles(BreakdownInicial(bill.consumo_kwh, survey), bill.consumo_kwh)

NotaTarifaDesconocida == Nota("Tarifa desconocida: se uso tarifa promedio", 0, 0)

TieneNota(supuestos, nota) == \E i \in 1..Len(supuestos) : supuestos[i] = nota

\* C1: for every total > 0 and every survey the kWh of the categories of the
\* returned breakdown add up to the total exactly.
C1_SumaIgualAlTotal ==
    (BreakdownDone /\ bill.consumo_kwh > 0)
        => /\ ret.kind = "value"
           /\ SumaKwh(ret.value.breakdown) = bill.consumo_kwh

KwhNoNegativo(breakdown) ==
    \A cat \in DOMAIN breakdown : breakdown[cat].kwh >= 0

\* C2: no category of the breakdown has a negative kWh, neither as the
\* reduction pass leaves it nor in the returned breakdown, where an overshoot
\* has been absorbed into standby.
C2_KwhNoNegativo ==
    BreakdownReturned
        => KwhNoNegativo(TrasReduccion) /\ KwhNoNegativo(ret.value.breakdown)

OvershootMayorQueStandby(breakdown, consumo_total) ==
    breakdown[STANDBY].kwh + Residual(breakdown, consumo_total) < 0

\* the pass ran, an overshoot larger than standby was left, and standby
\* ended at its floor
C2_Witness ==
    /\ BreakdownReturned
    /\ ret.value.breakdown[STANDBY].kwh = 10
    /\ SumaKwh(BreakdownInicial(bill.consumo_kwh, survey)) > bill.consumo_kwh
    /\ OvershootMayorQueStandby(TrasReduccion, bill.consumo_kwh)

C10_TotalCeroSinError ==
    (BreakdownDone /\ bill.consumo_kwh = 0)
        => /\ ret.kind = "value"
           /\ DOMAIN ret.value.breakdown = {}

PctDe(breakdown, cat) ==
    IF cat \in DOMAIN breakdown THEN breakdown[cat].pct ELSE 0

\* The percentages of a breakdown added up, in tenths.
SumaPct(breakdown) ==
    PctDe(breakdown, REFRIGERACION) + PctDe(breakdown, STANDBY)
        + PctDe(breakdown, CLIMATIZACION) + PctDe(breakdown, AGUA_CALIENTE)
        + PctDe(breakdown, LAVADO) + PctDe(breakdown, ELECTRONICOS)
        + PctDe(breakdown, BOMBEO) + PctDe(breakdown, OTROS)

\* C11: for every total > 0 and every survey the percentages of the returned
\* breakdown add up to 100 within 0.5.
C11_PorcentajesSumanCien ==
    (BreakdownDone /\ bill.consumo_kwh > 0)
        => /\ ret.kind = "value"
           /\ SumaPct(ret.value.breakdown) >= 995
           /\ SumaPct(ret.value.breakdown) <= 1005

\* The order in which the candidates are generated.
OrdenDeGeneracion ==
    <<TITULO_AC, TITULO_REF, TITULO_LED, TITULO_STANDBY, TITULO_SECADORA>>

Generacion(rec) == CHOOSE i \in 1..Len(OrdenDeGeneracion) : OrdenDeGeneracion[i] = rec.titulo

\* The candidates generated by the current call, which returned.
CandidatasDeLaLlamada ==
    Candidatas(survey, ret.value.breakdown,
               compute_cost_mxn(bill.consumo_kwh, bill.tarifa), bill.consumo_kwh)

Elegidas(recs, cands) == \A i \in 1..Len(recs) : \E j \in 1..Len(cands) : cands[j] = recs[i]

\* rec goes before otra in a descending stable sort.
VaAntes(rec, otra) ==
    \/ rec.ahorro_kwh > otra.ahorro_kwh
    \/ rec.ahorro_kwh = otra.ahorro_kwh /\ Generacion(rec) < Generacion(otra)

Top3Estable(recs, cands) ==
    /\ Len(recs) <= 3
    /\ Len(recs) = Min(3, Len(cands))
    /\ Elegidas(recs, cands)
    /\ \A i, j \in 1..Len(recs) : i < j => VaAntes(recs[i], recs[j])
    /\ \A j \in 1..Len(cands) :
          (\A i \in 1..Len(recs) : recs[i] # cands[j])
              => \A i \in 1..Len(recs) : VaAntes(recs[i], cands[j])

\* C12: the returned recommendations are at most 3, ordered by non-increasing
\* kWh saved, they are the 3 largest-saving candidates generated, and among
\* candidates that save the same the order of generation is kept.
C12_Top3PorAhorro ==
    BreakdownReturned => Top3Estable(ret.value.recomendaciones, CandidatasDeLaLlamada)

\* four candidates, so one is left out, and the first two of the returned
\* ones save the same and stand in the order of generation
C12_Witness ==
    /\ BreakdownReturned
    /\ Len(CandidatasDeLaLlamada) >= 4
    /\ Len(ret.value.recomendaciones) = 3
    /\ ret.value.recomendaciones[1].ahorro_kwh = ret.value.recomendaciones[2].ahorro_kwh
    /\ Generacion(ret.value.recomendaciones[1]) < Generacion(ret.value.recomendaciones[2])

\* num / den rounded half-up to an integer, for num >= 0 and den > 0.
CocienteMedioArriba(num, den) ==
    (num \div den) + (IF 2 * (num % den) >= den THEN 1 ELSE 0)

\* C15: for every returned recommendation the currency saved is the kWh saved
\* times the price per kWh (the estimated cost divided by the total) rounded
\* half-up to 2 decimals, a half centavo going up, and the CO2e avoided is
\* compute_co2e_kg of the kWh saved.
C15_AhorroMedioArriba ==
    BreakdownReturned
        => \A i \in 1..Len(ret.value.recomendaciones) :
              LET rec == ret.value.recomendaciones[i]
              IN  /\ rec.ahorro_mxn
                        = CocienteMedioArriba(
                              rec.ahorro_kwh * compute_cost_mxn(bill.consumo_kwh, bill.tarifa),
                              bill.consumo_kwh)
                  /\ rec.ahorro_co2e = (rec.ahorro_kwh * 444 + 5) \div 10

\* The estimates of the current call before the adjustment.
Inicial == BreakdownInicial(bill.consumo_kwh, survey)

\* The reduction pass as C18 describes it, in tenths of a kWh: st.kwh gives
\* the tenths of every category and st.exceso the remaining excess.  A
\* present flexible category reached with an excess left loses
\* min(0.30 * kWh, excess) but stays at 10 kWh or more, and the excess goes
\* down by what the category lost.
PasoPrevisto(st, cat) ==
    IF cat \in DOMAIN st.kwh /\ st.exceso > 0
    THEN LET queda == Max(100, st.kwh[cat] - Min((3 * st.kwh[cat]) \div 10, st.exceso))
         IN  [kwh    |-> [st.kwh EXCEPT ![cat] = queda],
              exceso |-> st.exceso - (st.kwh[cat] - queda)]
    ELSE st

\* In the order A/C, electronics, standby, pumping.
PasadaPrevista(breakdown, consumo_total) ==
    PasoPrevisto(
        PasoPrevisto(
            PasoPrevisto(
                PasoPrevisto([kwh    |-> [cat \in DOMAIN breakdown |-> 10 * breakdown[cat].kwh],
                              exceso |-> 10 * (SumaKwh(breakdown) - consumo_total)],
                             CLIMATIZACION),
                ELECTRONICOS),
            STANDBY),
        BOMBEO).kwh

MismosKwh(breakdown, decimas) ==
    /\ DOMAIN breakdown = DOMAIN decimas
    /\ \A cat \in DOMAIN breakdown : 10 * breakdown[cat].kwh = decimas[cat]

\* C18: when the estimates add up to more than the total, the pass goes
\* through the present flexible categories in the order A/C, electronics,
\* standby, pumping; each loses min(0.30 * its kWh, remaining excess) without
\* ending below 10, the excess goes down by what was removed, a category
\* reached with no excess left is unchanged and refrigeration, water heating
\* and laundry are never changed.
C18_PasadaDeReduccion ==
    (BreakdownReturned /\ SumaKwh(Inicial) > bill.consumo_kwh)
        => MismosKwh(TrasReduccion, PasadaPrevista(Inicial, bill.consumo_kwh))

NotaOtros(residual) == Nota("Otros consumos no identificados: {} kWh", residual, 0)

\* The kWh of devuelto are those of reducido.
SinCambios(reducido, devuelto) ==
    /\ DOMAIN devuelto = DOMAIN reducido
    /\ \A cat \in DOMAIN reducido : devuelto[cat].kwh = reducido[cat].kwh

\* 'Otros' is in the returned breakdown exactly when the residual is above 5,
\* and then holds the residual with confidence low and a note of the amount.
OtrosSiResidual(residual, valor) ==
    /\ OTROS \in DOMAIN valor.breakdown <=> residual > 5
    /\ residual > 5
          => /\ valor.breakdown[OTROS].kwh = residual
             /\ valor.breakdown[OTROS].confianza = "low"
             /\ TieneNota(valor.supuestos, NotaOtros(residual))

C19_Original(reducido, residual, valor) ==
    /\ OtrosSiResidual(residual, valor)
    /\ (residual >= -5 /\ residual <= 5) => SinCambios(reducido, valor.breakdown)

C19_Enmendada(reducido, residual, valor) ==
    /\ OtrosSiResidual(residual, valor)
    /\ (residual >= 0 /\ residual <= 5) => SinCambios(reducido, valor.breakdown)

\* C19 as stated: with residual = total - S after the reduction pass, 'Otros'
\* is present if and only if residual > 5, then holding exactly the residual
\* with confidence low and a note of that amount; when -5 <= residual <= 5 no
\* category is added or changed.
C19_OtrosYHolgura ==
    BreakdownReturned
        => C19_Original(TrasReduccion, bill.consumo_kwh - SumaKwh(TrasReduccion), ret.value)

\* C19 amended: 'Otros' is present if and only if residual > 5, then holding
\* exactly the residual with confidence low and a note of that amount; when
\* 0 <= residual <= 5 no category is added or changed.
C19_OtrosYHolguraNoNegativa ==
    BreakdownReturned
        => C19_Enmendada(TrasReduccion, bill.consumo_kwh - SumaKwh(TrasReduccion), ret.value)

\* a residual of 6, the least that gives 'Otros'
C19_Witness ==
    /\ BreakdownReturned
    /\ bill.consumo_kwh - SumaKwh(TrasReduccion) = 6
    /\ ret.value.breakdown[OTROS].kwh = 6
    /\ TieneNota(ret.value.supuestos, NotaOtros(6))

AbsorbidoEnStandby(reducido, residual, devuelto) ==
    /\ DOMAIN devuelto = DOMAIN reducido
    /\ OTROS \notin DOMAIN devuelto
    /\ devuelto[STANDBY].kwh
          = (IF reducido[STANDBY].kwh + residual > 10
             THEN reducido[STANDBY].kwh + residual ELSE 10)
    /\ \A cat \in DOMAIN reducido \ {STANDBY} : devuelto[cat].kwh = reducido[cat].kwh

C20_Se(reducido, residual, devuelto) ==
    residual < 0 => AbsorbidoEnStandby(reducido, residual, devuelto)

\* C20: when an overshoot is left after the reduction pass (residual < 0) it
\* is absorbed into standby, whose kWh becomes max(10, standby + residual);
\* no other category is changed and no 'Otros' is added.
C20_OvershootEnStandby ==
    BreakdownReturned
        => C20_Se(TrasReduccion, bill.consumo_kwh - SumaKwh(TrasReduccion),
                  ret.value.breakdown)

C20_Testigo(reducido, residual, devuelto) ==
    /\ residual < 0
    /\ residual >= -5
    /\ devuelto[STANDBY].kwh = reducido[STANDBY].kwh + residual
    /\ devuelto[STANDBY].kwh > 10

\* an overshoot of 5 kWh or less taken whole from a standby that stays above
\* its floor
C20_Witness ==
    /\ BreakdownReturned
    /\ C20_Testigo(TrasReduccion, bill.consumo_kwh - SumaKwh(TrasReduccion),
                   ret.value.breakdown)

(***************************************************************************)
(* C14.  When the external generator is unavailable or fails               *)
(* (get_recommendations raises or yields nothing) during a results         *)
(* request, the recommendations stored for the bill are those of the       *)
(* rule-based ranker compute_breakdown_and_recs, so the user still         *)
(* receives recommendations.                                               *)
(***************************************************************************)
Fallido(g) == g.kind = "error" \/ g.value = <<>>

DelRanker(recs, r) ==
    /\ r.kind = "value"
    /\ Len(recs) = Len(r.value.recomendaciones)
    /\ recs = r.value.recomendaciones

\* C14: after a results request whose generator call failed, the stored
\* recommendations are the ranker's.
C14_RankerDeRespaldo ==
    (analysis # DoesNotExist /\ Fallido(get_recommendations(api)))
        => DelRanker(analysis.recomendaciones_json,
                     compute_breakdown_and_recs(bill, survey))

(***************************************************************************)
(* C17.  In every list returned by get_recommendations, every item whose   *)
(* type tag is not 'con_inversion' has costo_inversion_mxn = None and      *)
(* retorno_meses = None.                                                   *)
(***************************************************************************)
SinInversionSinCosto(r) ==
    (r.tipo.t = "str" /\ r.tipo.s = "con_inversion")
        \/ (r.costo_inversion_mxn.t = "null" /\ r.retorno_meses.t = "null")

SoloConInversion(g) ==
    g.kind = "value" => \A i \in 1..Len(g.value) : SinInversionSinCosto(g.value[i])

\* C17: in the list that get_recommendations returned to a results request,
\* an investment cost and a payback period are carried by items of type
\* 'con_inversion' only.
C17_CostoSoloConInversion ==
    (analysis # DoesNotExist) => SoloConInversion(get_recommendations(api))


(***************************************************************************)
(* C16.  _map_to_bill_fields never raises for any decoded reply: every     *)
(* field whose raw value is missing, null, of the wrong type or not        *)
(* convertible is returned as None (multiplicador as 1), and the tariff is *)
(* a code of the valid set or None.                                        *)
(***************************************************************************)
\* The numeric fields of the result and the keys of the reply they come from.
NUMERICOS == <<<<"consumo_kwh", "consumo_total">>,
               <<"lectura_anterior", "lectura_anterior">>,
               <<"lectura_actual", "lectura_actual">>,
               <<"total_recibo_mxn", "total_pagar">>,
               <<"subsidio_mxn", "subsidio">>,
               <<"multiplicador", "multiplicador">>,
               <<"periodo_basico_kwh", "periodo_basico_kwh">>,
               <<"periodo_intermedio_kwh", "periodo_intermedio_kwh">>,
               <<"periodo_excedente_kwh", "periodo_excedente_kwh">>,
               <<"subtotal_basico_mxn", "subtotal_basico_mxn">>,
               <<"subtotal_intermedio_mxn", "subtotal_intermedio_mxn">>,
               <<"subtotal_excedente_mxn", "subtotal_excedente_mxn">>>>

\* A number, or a text that reads as one.
EsNumero(v) == v.t \in {"num", "str"} /\ PyFloat(v).kind = "value"

SinValor(campo, v) ==
    IF campo = "multiplicador" THEN v.t = "num" /\ v.f = "fin" /\ v.n = 1000
    ELSE v.t = "null"

IlegiblesEnNone(raw, res) ==
    \A k \in 1..Len(NUMERICOS) :
        ~EsNumero(raw[NUMERICOS[k][2]])
            => SinValor(NUMERICOS[k][1], res[NUMERICOS[k][1]])

TarifaValidaONone(res) ==
    res.tarifa.t = "null" \/ (res.tarifa.t = "str" /\ res.tarifa.s \in TARIFA_VALIDAS)

\* C16: the mapping returns for every reply, with None (1 for the
\* multiplier) in the fields it could not read and a valid tariff or None.
C16_MapeoNuncaLanza ==
    (pc = "done" /\ op = "_map_to_bill_fields")
        => /\ ret.kind = "value"
           /\ IlegiblesEnNone(api, ret.value)
           /\ TarifaValidaONone(ret.value)

(***************************************************************************)
(* C21.  For every total consumption the Standby category is present, its  *)
(* estimate before reconciliation is max(30, round(0.10 * total_kwh)), the *)
(* tenth of the total rounded to the nearest integer (31 for 306), and its *)
(* confidence is low.                                                      *)
(***************************************************************************)
\* n is an integer nearest to total / 10 (either neighbour at a tie).
DecimoRedondeado(total, n) == 10 * n - total <= 5 /\ total - 10 * n <= 5

StandbyRedondeado(total, kwh) ==
    \E n \in 0..(total \div 10 + 1) : DecimoRedondeado(total, n) /\ kwh = Max(30, n)

\* C21: before the adjustment to the total, standby is present with
\* max(30, the tenth of the total rounded to the nearest integer) kWh and
\* confidence low.
C21_StandbyRedondeado ==
    BreakdownDone
        => /\ STANDBY \in DOMAIN Inicial
           /\ StandbyRedondeado(bill.consumo_kwh, Inicial[STANDBY].kwh)
           /\ Inicial[STANDBY].confianza = "low"

(***************************************************************************)
(* C22.  The A/C category is present iff the survey has units > 0 and      *)
(* daily hours > 0; its estimate before reconciliation is                  *)
(* min(units * hours * 72, 60% of the total) kWh, so it is at most 60% of  *)
(* the total, and its confidence is medium.                                *)
(***************************************************************************)
\* The whole kWh in 60% of the total.
SesentaPorCiento(total) == (6 * total) \div 10

ClimaComoDicho(total, s, cat) ==
    /\ cat.kwh = Min(s.ac_count * s.ac_horas_dia * 72, SesentaPorCiento(total))
    /\ 10 * cat.kwh <= 6 * total
    /\ cat.confianza = "medium"

\* C22: before the adjustment to the total, A/C is present exactly when
\* units and hours are positive, with min(72 * units * hours, 60% of the
\* total) kWh and confidence medium.
C22_ClimaEstimado ==
    BreakdownDone
        => /\ (CLIMATIZACION \in DOMAIN Inicial)
                <=> (survey.ac_count > 0 /\ survey.ac_horas_dia > 0)
           /\ CLIMATIZACION \in DOMAIN Inicial
                => ClimaComoDicho(bill.consumo_kwh, survey, Inicial[CLIMATIZACION])

(***************************************************************************)
(* C23.  The candidate recommendations come from independent gates on the  *)
(* final breakdown: A/C saving 12% of the A/C kWh iff A/C is present with  *)
(* more than 100 kWh; refrigerator saving 10% of the refrigeration kWh iff *)
(* the refrigerator is 'old'; lighting saving 20 kWh always; standby       *)
(* saving 15 kWh iff standby has more than 40 kWh; dryer saving 60 kWh iff *)
(* the survey has an electric dryer; and no other candidate.               *)
(***************************************************************************)
Propuesta(cands, titulo) == \E i \in 1..Len(cands) : cands[i].titulo = titulo

\* The candidate of this title saves pct hundredths of kwh, to the whole kWh
\* below or above.
AhorraPorcentaje(cands, titulo, pct, kwh) ==
    \A i \in 1..Len(cands) :
        cands[i].titulo = titulo
            => /\ 100 * cands[i].ahorro_kwh - pct * kwh < 100
               /\ pct * kwh - 100 * cands[i].ahorro_kwh < 100

Ahorra(cands, titulo, ahorro) ==
    \A i \in 1..Len(cands) : cands[i].titulo = titulo => cands[i].ahorro_kwh = ahorro

\* The gates of C23 on the final breakdown.
Compuertas(cands, s, final) ==
    /\ \A i, j \in 1..Len(cands) : cands[i].titulo = cands[j].titulo => i = j
    /\ \A i \in 1..Len(cands) :
          cands[i].titulo \in {TITULO_AC, TITULO_REF, TITULO_LED, TITULO_STANDBY,
                               TITULO_SECADORA}
    /\ Propuesta(cands, TITULO_AC) <=> KwhDe(final, CLIMATIZACION) > 100
    /\ AhorraPorcentaje(cands, TITULO_AC, 12, KwhDe(final, CLIMATIZACION))
    /\ Propuesta(cands, TITULO_REF) <=> s.ref_antiguedad = "old"
    /\ AhorraPorcentaje(cands, TITULO_REF, 10, KwhDe(final, REFRIGERACION))
    /\ Propuesta(cands, TITULO_LED)
    /\ Ahorra(cands, TITULO_LED, 20)
    /\ Propuesta(cands, TITULO_STANDBY) <=> KwhDe(final, STANDBY) > 40
    /\ Ahorra(cands, TITULO_STANDBY, 15)
    /\ Propuesta(cands, TITULO_SECADORA) <=> s.secadora
    /\ Ahorra(cands, TITULO_SECADORA, 60)

Respondidas == {r \in DOMAIN pc : pc[r] = "done"}

\* C24: in a sequence of results requests the generator is called at most
\* once, by the request that stores the analysis, and every request answered
\* since shows the stored recommendations.
C24_UnaSolaLlamada ==
    /\ llamadas <= 1
    /\ analysis # DoesNotExist
        => /\ llamadas = 1
           /\ \A r \in Respondidas : ret[r] = Render(analysis.recomendaciones_json)

\* Every request of the sequence has been answered, the first of them stored
\* five recommendations and the generator was called once.
C24_Witness ==
    /\ Respondidas = DOMAIN pc
    /\ Cardinality(Respondidas) >= 2
    /\ analysis # DoesNotExist
    /\ Len(analysis.recomendaciones_json) = MAX_RECS
    /\ llamadas = 1

(***************************************************************************)
(* C25.  The global confidence returned by compute_breakdown_and_recs is   *)
(* one of high, medium, low: 'low' when the tariff is unknown; otherwise   *)
(* 'high' exactly when the bill carries a declared total amount and both   *)
(* meter readings (present, i.e. not null, whatever their numeric value);  *)
(* otherwise 'medium'.                                                     *)
(***************************************************************************)
ConfianzaDocumentada(b) ==
    IF b.tarifa = "DESCONOZCO" THEN "low"
    ELSE IF b.total_recibo_mxn # NONE /\ b.lectura_anterior # NONE
                                      /\ b.lectura_actual # NONE
    THEN "high"
    ELSE "medium"

\* C25: for a bill whose tariff is one of the codes a bill may declare, the
\* returned confidence is 'low' for the unknown-tariff code, else 'high'
\* exactly when the amount and both readings are not null, else 'medium'.
C25_ConfianzaPorPresencia ==
    (BreakdownReturned /\ bill.tarifa \in TARIFA_CHOICES)
        => /\ ret.value.confianza_global \in {"high", "medium", "low"}
           /\ ret.value.confianza_global = ConfianzaDocumentada(bill)

(***************************************************************************)
(* C26.  Reconciliation only shrinks estimates: for every total > 0 and    *)
(* survey, every category present before the adjustment has in the         *)
(* returned breakdown at most the kWh of its estimate, small totals where  *)
(* the A/C cap gives less than 10 kWh included.                            *)
(***************************************************************************)
NoCrece(antes, despues) ==
    \A cat \in DOMAIN antes : cat \in DOMAIN despues /\ despues[cat].kwh <= antes[cat].kwh

\* C26: no category estimated by steps 1-7 has more kWh in the returned
\* breakdown than its estimate.
C26_SoloReduce ==
    (BreakdownReturned /\ bill.consumo_kwh > 0) => NoCrece(Inicial, ret.value.breakdown)

(***************************************************************************)
(* C27.  For every total > 0 and every survey the breakdown never          *)
(* under-allocates by more than the rounding slack: the kWh of the         *)
(* returned categories add up to at least total_kwh - 5.                   *)
(***************************************************************************)
\* C27: the categories of the returned breakdown add up to the total less 5
\* kWh, or more.
C27_FaltanCincoALoMas ==
    (BreakdownReturned /\ bill.consumo_kwh > 0)
        => SumaKwh(ret.value.breakdown) >= bill.consumo_kwh - 5

\* A call whose estimates left exactly 5 kWh unassigned: no 'Otros' is added
\* and the returned categories are 5 kWh short of the total.
C27_Witness ==
    /\ BreakdownReturned
    /\ bill.consumo_kwh > 0
    /\ OTROS \notin DOMAIN ret.value.breakdown
    /\ SumaKwh(ret.value.breakdown) = bill.consumo_kwh - 5

(***************************************************************************)
(* C28.  For every total > 0, tariff and survey the returned list of       *)
(* recommendations is non-empty and contains the 20 kWh lighting (LED)     *)
(* recommendation, because at most two candidates (A/C and dryer) can rank *)
(* ahead of it.                                                            *)
(***************************************************************************)
\* C28: the recommendations returned for a total above 0 include the
\* lighting recommendation, which saves 20 kWh.
C28_SiempreLed ==
    (BreakdownReturned /\ bill.consumo_kwh > 0)
        => /\ Len(ret.value.recomendaciones) >= 1
           /\ Propuesta(ret.value.recomendaciones, TITULO_LED)
           /\ Ahorra(ret.value.recomendaciones, TITULO_LED, 20)

\* A call with the five candidates, where A/C and the dryer rank ahead and
\* lighting takes the third and last place.
C28_Witness ==
    /\ BreakdownReturned
    /\ bill.consumo_kwh > 0
    /\ Len(CandidatasDeLaLlamada) = 5
    /\ Len(ret.value.recomendaciones) = 3
    /\ ret.value.recomendaciones[3].titulo = TITULO_LED

(***************************************************************************)
(* The results view under concurrent requests.  Each request is served by  *)
(* its own worker, so the steps of one request interleave with the steps   *)
(* of the others: reading bill.analysis (line 270), calling the generator  *)
(* (line 276) and inserting the AnalysisResult row (line 285) are separate *)
(* steps, and nothing in the view holds a lock or a transaction between    *)
(* them.  The one-to-one field of AnalysisResult (models.py line 225) is a *)
(* unique constraint of the table: a second insert for the bill raises     *)
(* IntegrityError, which the view does not catch.                          *)
(***************************************************************************)
\* Lines 267-273: bill.analysis raises DoesNotExist, the request goes on to
\* generate the recommendations.
ResultsConsultar ==
    \E r \in DOMAIN pc :
        /\ pc[r] = "request"
        /\ survey # DoesNotExist
        /\ analysis = DoesNotExist
        /\ pc' = [pc EXCEPT ![r] = "llamar"]
        /\ UNCHANGED <<op, bill, survey, ret, analysis, api, llamadas, bills,
                       session>>

\* Lines 275-280: the generator is called.
ResultsLlamar ==
    \E r \in DOMAIN pc :
        /\ pc[r] = "llamar"
        /\ llamadas' = llamadas + 1
        /\ pc' = [pc EXCEPT ![r] = "crear"]
        /\ UNCHANGED <<op, bill, survey, ret, analysis, api, bills, session>>

\* Lines 283-306: the row is inserted and the page rendered; the insert
\* fails when another request inserted the row of the bill meanwhile.
ResultsCrear ==
    \E r \in DOMAIN pc :
        /\ pc[r] = "crear"
        /\ IF analysis = DoesNotExist
             THEN /\ analysis' =
                         [costo_estimado_mxn |->
                              compute_cost_mxn(bill.consumo_kwh, bill.tarifa),
                          co2e_kg |-> compute_co2e_kg(bill.consumo_kwh),
                          recomendaciones_json |->
                              SiFalla(get_recommendations(api))]
                  /\ ret' = [ret EXCEPT
                                ![r] = Render(analysis'.recomendaciones_json)]
             ELSE /\ ret' = [ret EXCEPT ![r] = Raised("IntegrityError")]
                  /\ UNCHANGED analysis
        /\ pc' = [pc EXCEPT ![r] = "done"]
        /\ UNCHANGED <<op, bill, survey, api, llamadas, bills, session>>

\* The requests for the bill are served at the same time.
resultsConcurrentes ==
    \/ ResultsSinEncuesta
    \/ ResultsGuardado
    \/ ResultsConsultar
    \/ ResultsLlamar
    \/ ResultsCrear

SpecConcurrente == InitResults /\ [][resultsConcurrentes]_vars

(***************************************************************************)
(* C29.  Under any interleaving of two or more concurrent results requests *)
(* for the same bill that has a survey and no AnalysisResult yet, at most  *)
(* one AnalysisResult is created, get_recommendations is invoked at most   *)
(* once, and no request fails.                                             *)
(***************************************************************************)
\* C29: with concurrent results requests for a bill that has a survey, the
\* generator is called at most once and no request ends in an error.
C29_Atomico ==
    survey # DoesNotExist
        => /\ llamadas <= 1
           /\ \A r \in DOMAIN pc : ret[r].kind # "error"

(***************************************************************************)
(* The create_bill view and the history kept in the session.  `bills` is   *)
(* the table of Bill rows in the order of their creation; the id of a row  *)
(* is given by the table when the row is inserted and no view deletes a    *)
(* row, so the id of a new row is one more than the rows there are.        *)
(* session[s] is the stored session of browser s, a dictionary that has    *)
(* the key bill_history or not; ret[s] is the last response sent to s.     *)
(* A POST carries the fields of BillForm: the dates are day numbers and    *)
(* the optional tier fields are 0 when left empty.                         *)
(***************************************************************************)
MaxBills == 6             \* rows of the Bill table the model creates

\* request.session: the sessions of two browsers, told apart by their key.
Sesiones == {"s1", "s2"}

\* The POSTs tried: two that validate and one that fails each check.
Formularios ==
    LET bueno == [tarifa |-> "1C", consumo_kwh |-> 280, periodo_inicio |-> 1,
                  periodo_fin |-> 61, periodo_basico_kwh |-> 0,
                  periodo_intermedio_kwh |-> 0, periodo_excedente_kwh |-> 0]
    IN  {bueno,
         [bueno EXCEPT !.periodo_basico_kwh = 150,
                       !.periodo_intermedio_kwh = 130,
                       !.periodo_excedente_kwh = 10],
         [bueno EXCEPT !.tarifa = "2"],
         [bueno EXCEPT !.consumo_kwh = 0],
         [bueno EXCEPT !.consumo_kwh = 5001],
         [bueno EXCEPT !.periodo_fin = 1],
         [bueno EXCEPT !.periodo_basico_kwh = 150]}

\* form.is_valid(): the validators of the model fields and BillForm.clean.
\* abs(suma - consumo) > consumo * 0.05 is 20 * abs(...) > consumo for
\* every consumption the field admits.
BillFormIsValid(post) ==
    LET suma_escalones == post.periodo_basico_kwh + post.periodo_intermedio_kwh
                              + post.periodo_excedente_kwh
        diferencia == IF suma_escalones >= post.consumo_kwh
                        THEN suma_escalones - post.consumo_kwh
                        ELSE post.consumo_kwh - suma_escalones
    IN  /\ post.tarifa \in TARIFA_CHOICES
        /\ post.consumo_kwh >= 1
        /\ post.consumo_kwh <= 5000
        /\ post.periodo_fin > post.periodo_inicio
        /\ ~(suma_escalones > 0 /\ 20 * diferencia > post.consumo_kwh)

\* request.session['bill_history'], [] when the key is not there.
BillHistory(ses) ==
    IF "bill_history" \in DOMAIN ses THEN ses.bill_history ELSE <<>>

\* Mutant: five of the earlier ids are kept behind the new one.
NuevoHistorial_CincoAnteriores(id, historial) ==
    <<id>> \o SubSeq(historial, 1, Min(5, Len(historial)))

\* Line 213: [bill.id] + request.session['bill_history'][:4]
NuevoHistorial(id, historial) ==
    <<id>> \o SubSeq(historial, 1, Min(4, Len(historial)))

\* Lines 204-221: the form validates, the row is saved, its id goes to the
\* front of the history of the session and the browser is sent to the
\* dashboard of the bill.
CreateBillValido ==
    \E s \in DOMAIN session, post \in Formularios, htmx \in BOOLEAN :
        /\ Len(bills) < MaxBills
        /\ BillFormIsValid(post)
        /\ bills' = Append(bills, [id |-> Len(bills) + 1,
                                   tarifa |-> post.tarifa,
                                   consumo_kwh |-> post.consumo_kwh])
        /\ session' = [session EXCEPT ![s] =
                          [session_key |-> s,
                           bill_history |->
                               NuevoHistorial(Len(bills) + 1,
                                              BillHistory(session[s]))]]
        /\ ret' = [ret EXCEPT ![s] =
                      [kind |-> IF htmx THEN "HX-Redirect" ELSE "redirect",
                       to |-> "energy:dashboard",
                       bill_id |-> Len(bills) + 1]]
        /\ UNCHANGED <<pc, op, bill, survey, analysis, api, llamadas>>

\* Lines 204-206 and 223-227: the form does not validate and is shown
\* again with its errors.
CreateBillInvalido ==
    \E s \in DOMAIN session, post \in Formularios, htmx \in BOOLEAN :
        /\ ~BillFormIsValid(post)
        /\ ret' = [ret EXCEPT ![s] =
                      [kind |-> "render",
                       template |-> IF htmx
                                      THEN "energy/partials/bill_form.html"
                                      ELSE "energy/wizard.html",
                       post |-> post]]
        /\ UNCHANGED <<pc, op, bill, survey, analysis, api, llamadas, bills,
                       session>>

create_bill == CreateBillValido \/ CreateBillInvalido

InitSesion ==
    /\ pc = "request"
    /\ op = "create_bill"
    /\ bill = BillOf(280, "1C")
    /\ survey = DoesNotExist
    /\ analysis = DoesNotExist
    /\ api = [api_key |-> FALSE, respuesta |-> NoRet]
    /\ llamadas = 0
    /\ bills = <<>>
    /\ session = [s \in Sesiones |-> [session_key |-> s]]
    /\ ret = [s \in Sesiones |-> NoRet]

SpecSesion == InitSesion /\ [][create_bill]_vars

(***************************************************************************)
(* C30.  After any sequence of create_bill requests within one session,    *)
(* the bill_history of the session holds at most 5 bill ids, without       *)
(* duplicates, ordered most recently created first with the bill just      *)
(* created at index 0; a request whose form is invalid leaves bill_history *)
(* unchanged and creates no bill.                                          *)
(***************************************************************************)
\* The history has at most 5 ids of rows of the table, each created after
\* the one behind it (so no id is there twice).
HistorialEnOrden(h) ==
    /\ Len(h) <= 5
    /\ \A i \in DOMAIN h : h[i] \in 1..Len(bills)
    /\ \A i, j \in DOMAIN h : i < j => h[i] > h[j]

\* The step answers session s.
Responde(s) == ret'[s] # ret[s]

\* C30: in every state the history of every session is in order and, when
\* the last response to the session was the redirect to a new bill, starts
\* with that bill; every step that answers a valid form creates one bill
\* and puts it in front of what the history of the session had, cut to the
\* 4 most recent, and every step that answers an invalid form changes
\* neither the table nor any session.
C30_HistorialDeLaSesion ==
    /\ [](\A s \in DOMAIN session :
             /\ HistorialEnOrden(BillHistory(session[s]))
             /\ ret[s].kind \in {"redirect", "HX-Redirect"}
                    => BillHistory(session[s])[1] = ret[s].bill_id)
    /\ [][\A s \in DOMAIN session :
             /\ (Responde(s) /\ ret'[s].kind = "render")
                    => UNCHANGED <<bills, session>>
             /\ (Responde(s) /\ ret'[s].kind # "render")
                    => /\ Len(bills') = Len(bills) + 1
                       /\ BillHistory(session'[s])[1] = Len(bills')
                       /\ \A i \in 2..Len(BillHistory(session'[s])) :
                              BillHistory(session'[s])[i]
                                  = BillHistory(session[s])[i - 1]
                       /\ Len(BillHistory(session'[s]))
                              = Min(5, Len(BillHistory(session[s])) + 1)
                       /\ \A o \in DOMAIN session \ {s} :
                              session'[o] = session[o]]_vars

\* A session that created every bill of the table, so that its full history
\* has dropped the oldest one, and which then got an invalid form back.
C30_Witness ==
    \E s \in DOMAIN session :
        /\ Len(BillHistory(session[s])) = 5
        /\ BillHistory(session[s])[5] > 1
        /\ \A o \in DOMAIN session \ {s} : BillHistory(session[o]) = <<>>
        /\ ret[s].kind = "render"
====
